---- MODULE Spec2Model ----
(***************************************************************************)
(* The interop marshalling layer of RS_ScriptClient/connect/               *)
(* connect_cpython.py: the numeric converters numpyify / arrayify /        *)
(* systemify, the normalizers pyobjify / clrify and the proxies            *)
(* PyScriptObject, PyScriptMethod, PyScriptObjectCollection with its       *)
(* PyScriptValueIterator.                                                  *)
(*                                                                         *)
(* Every value is a record with a "tag" field.  Host (Python) values and   *)
(* remote (.NET) values live in one universe, as they do in the program.   *)
(***************************************************************************)
EXTENDS Integers, Sequences, FiniteSets, TLC

VARIABLES
    nOp,        \* converter being run: "idle", "numpyify", "arrayify", "systemify"
    nPc,        \* position inside the converter
    nSrc,       \* its argument src
    nDst,       \* its local dst / its return value
    nType,      \* the looked-up npType / netType
    nPending,   \* exception raised inside the try block, pending over finally
    nErr,       \* the exception the converter raised
    nPin,       \* GCHandle bookkeeping of the current call
    nTrip,      \* round trip bookkeeping: first input and stage
    unsupKinds, \* kinds of the errors raised so far for unsupported types
    oDict,      \* PyScriptObject instance __dict__
    oRemote,    \* members of the remote CPythonScriptObject
    oCalls,     \* remote calls issued by the proxies, in order
    oHost,      \* host operations on the proxies, in program order
    oResult,    \* outcome of the last host operation
    mCall,      \* the last PyScriptMethod call: its args and kwargs
    mConverted, \* the values that call passed to clrify, in order
    mInvokes,   \* the remote Invokes that call issued, in order
    mResult,    \* what that call returned or raised
    cItems,     \* elements of the remote CPythonScriptObjectCollection
    cMuts,      \* how often the remote runtime has changed the collection
    iters,      \* the PyScriptValueIterators created so far
    cSeen,      \* the last len(collection) or collection[key] and its outcome
    sd,         \* a sorted_dict: its key_type, its entries, the last outcome
    ex,         \* an ExpandoObject, the ExpandoDictionary made from it
    g,          \* a value on its way through pyobjify / clrify
    hp,         \* builtins.help, ScriptObjectHelp.help_replaced, the calls so far
    scp,        \* the last DicomSCP construction and what came of it
    th          \* the threaded export window: threads, results queue, status fields

numVars   == <<nOp, nPc, nSrc, nDst, nType, nPending, nErr, nPin, nTrip, unsupKinds>>
proxyVars == <<oDict, oRemote, oCalls, oHost, oResult>>
methVars  == <<mCall, mConverted, mInvokes, mResult>>
iterVars  == <<cItems, cMuts, iters, cSeen>>
normVars  == <<sd, ex, g>>
appVars   == <<hp, scp, th>>
vars      == <<numVars, proxyVars, methVars, iterVars, normVars, appVars>>

\* ------------------------------------------------------------------ bounds

MaxExtent == 2      \* extents of every dimension range over 0..MaxExtent
MaxRank   == 3      \* ranks range over 1..MaxRank
MaxOps    == 2      \* attribute operations on the proxy object in one run
MaxKwargs == 2      \* keyword arguments of a method call
MaxArgs   == 1      \* positional arguments of a method call
MaxLen    == 3      \* elements of the remote collection
MaxIters  == 2      \* iterators over the collection
MaxStops  == 2      \* next calls on an exhausted iterator
MaxMuts   == 1      \* changes of the collection by the remote runtime
MaxSdOps  == 2      \* insertions into a sorted_dict after its construction
MaxElems  == 2      \* elements of the containers handed to pyobjify / clrify
MaxExOps  == 2      \* changes of an ExpandoDictionary, and of its ExpandoObject
MaxHelpOps == 3     \* calls of replace_help and of help
NumDest   == 2      \* export destinations shown in the window

NoValue == [tag |-> "None"]

\* ------------------------------------------------------------ type tables

\* numpy dtypes / numpy scalar types with an entry in the converters
NumKinds ==
    {"bool", "float32", "float64", "int8", "int16", "int32", "int64",
     "uint8", "uint16", "uint32", "uint64"}

\* numpy dtypes without an entry
OtherKinds == {"complex64", "float16"}

\* .NET primitive types the converters name
NetNumTypes ==
    {"Boolean", "Single", "Double", "SByte", "Int16", "Int32", "Int64",
     "Byte", "UInt16", "UInt32", "UInt64"}

\* other .NET element types an array can have
OtherNetTypes == {"Char", "Decimal", "String", "Object", "ValueType"}

\* bytes per element
ItemSize(t) ==
    CASE t \in {"bool", "int8", "uint8", "Boolean", "SByte", "Byte"} -> 1
      [] t \in {"int16", "uint16", "float16", "Int16", "UInt16", "Char"} -> 2
      [] t \in {"int32", "uint32", "float32", "Int32", "UInt32", "Single"} -> 4
      [] t \in {"int64", "uint64", "float64", "complex64",
                "Int64", "UInt64", "Double"} -> 8
      [] OTHER -> 16

\* System.Type.IsAssignableFrom: t.IsAssignableFrom(c) for a primitive struct c
\* holds when t is c or one of c's base types.
IsAssignableFrom(t, c) ==
    \/ t = c
    \/ t = "Object"
    \/ t = "ValueType" /\ c # "String"

\* numpyify, lines 64-90: the if/elif chain over elementType.IsAssignableFrom
NumpyifyType(elementType) ==
    IF IsAssignableFrom(elementType, "Boolean") THEN "bool"
    ELSE IF IsAssignableFrom(elementType, "Single") THEN "float32"
    ELSE IF IsAssignableFrom(elementType, "Double") THEN "float64"
    ELSE IF IsAssignableFrom(elementType, "SByte") THEN "int8"
    ELSE IF IsAssignableFrom(elementType, "Int16") THEN "int16"
    ELSE IF IsAssignableFrom(elementType, "Int32") THEN "int32"
    ELSE IF IsAssignableFrom(elementType, "Int64") THEN "int64"
    ELSE IF IsAssignableFrom(elementType, "Byte") THEN "uint8"
    ELSE IF IsAssignableFrom(elementType, "UInt16") THEN "uint16"
    ELSE IF IsAssignableFrom(elementType, "UInt32") THEN "uint32"
    ELSE IF IsAssignableFrom(elementType, "UInt64") THEN "uint64"
    ELSE "none"

\* the chain with the two 8-bit integer entries exchanged
ArrayifyTypeSignMixed(dtype) ==
    IF dtype = "bool" THEN "Boolean"
    ELSE IF dtype = "float32" THEN "Single"
    ELSE IF dtype = "float64" THEN "Double"
    ELSE IF dtype = "int8" THEN "Byte"
    ELSE IF dtype = "int16" THEN "Int16"
    ELSE IF dtype = "int32" THEN "Int32"
    ELSE IF dtype = "int64" THEN "Int64"
    ELSE IF dtype = "uint8" THEN "SByte"
    ELSE IF dtype = "uint16" THEN "UInt16"
    ELSE IF dtype = "uint32" THEN "UInt32"
    ELSE IF dtype = "uint64" THEN "UInt64"
    ELSE "none"

\* arrayify, lines 111-134: the if/elif chain over src.dtype
ArrayifyType(dtype) ==
    IF dtype = "bool" THEN "Boolean"
    ELSE IF dtype = "float32" THEN "Single"
    ELSE IF dtype = "float64" THEN "Double"
    ELSE IF dtype = "int8" THEN "SByte"
    ELSE IF dtype = "int16" THEN "Int16"
    ELSE IF dtype = "int32" THEN "Int32"
    ELSE IF dtype = "int64" THEN "Int64"
    ELSE IF dtype = "uint8" THEN "Byte"
    ELSE IF dtype = "uint16" THEN "UInt16"
    ELSE IF dtype = "uint32" THEN "UInt32"
    ELSE IF dtype = "uint64" THEN "UInt64"
    ELSE "none"

\* Python isinstance(src, cls) on the scalar's concrete type: np.bool is the
\* builtin bool, which no numpy scalar type derives from.
IsInstance(ty, cls) ==
    \/ ty = cls
    \/ cls = "np.bool" /\ ty = "pybool"

\* systemify, lines 151-174: the if/elif chain over isinstance
SystemifyType(ty) ==
    IF IsInstance(ty, "np.bool") \/ IsInstance(ty, "bool") THEN "Boolean"
    ELSE IF IsInstance(ty, "float32") THEN "Single"
    ELSE IF IsInstance(ty, "float64") THEN "Double"
    ELSE IF IsInstance(ty, "int8") THEN "SByte"
    ELSE IF IsInstance(ty, "int16") THEN "Int16"
    ELSE IF IsInstance(ty, "int32") THEN "Int32"
    ELSE IF IsInstance(ty, "int64") THEN "Int64"
    ELSE IF IsInstance(ty, "uint8") THEN "Byte"
    ELSE IF IsInstance(ty, "uint16") THEN "UInt16"
    ELSE IF IsInstance(ty, "uint32") THEN "UInt32"
    ELSE IF IsInstance(ty, "uint64") THEN "UInt64"
    ELSE "none"

\* ---------------------------------------------------------------- buffers

RECURSIVE Prod(_)
Prod(s) == IF s = <<>> THEN 1 ELSE Head(s) * Prod(Tail(s))

RECURSIVE SumSeq(_)
SumSeq(s) == IF s = <<>> THEN 0 ELSE Head(s) + SumSeq(Tail(s))

\* element offset of the multi-index idx in row-major (C) order
COffset(shape, idx) ==
    SumSeq([d \in 1..Len(shape) |->
                idx[d] * Prod(SubSeq(shape, d + 1, Len(shape)))])

\* element offset of the multi-index idx in column-major (Fortran) order
FOffset(shape, idx) ==
    SumSeq([d \in 1..Len(shape) |-> idx[d] * Prod(SubSeq(shape, 1, d - 1))])

\* the multi-index of the p-th element in row-major order
CIndex(shape, p) ==
    [d \in 1..Len(shape) |->
        (p \div Prod(SubSeq(shape, d + 1, Len(shape)))) % shape[d]]

Zeros(n) == [i \in 1..n |-> 0]

\* the byte stored at position i of a test buffer (never 0, never periodic
\* in the element size)
Pattern(i) == (i % 5) + 1 + (i % 3)

\* numpy.ndarray: dtype, shape, memory layout and the bytes of its memory
NdArray(dtype, shape, order) ==
    [tag |-> "ndarray", dtype |-> dtype, shape |-> shape, order |-> order,
     mem |-> [i \in 1..(Prod(shape) * ItemSize(dtype)) |-> Pattern(i)]]

\* System.Array: element type, GetLength(i) of every dimension, and the bytes
\* of its (row-major) memory
NetArray(elementType, lengths) ==
    [tag |-> "Array", elementType |-> elementType, lengths |-> lengths,
     mem |-> [i \in 1..(Prod(lengths) * ItemSize(elementType)) |-> Pattern(i)]]

Ranks == 1..MaxRank
Shapes == UNION {[1..r -> 0..MaxExtent] : r \in Ranks}

HostArrays ==
    {NdArray(k, s, o) : k \in NumKinds \cup OtherKinds, s \in Shapes,
                        o \in {"C", "F"}}

RemoteArrays ==
    {NetArray(t, s) : t \in NetNumTypes \cup OtherNetTypes, s \in Shapes}

\* numpy scalars (and the builtin bool): concrete type and value
ScalarTypes == NumKinds \cup OtherKinds \cup {"pybool"}
Scalars == {[tag |-> "npscalar", type |-> ty, n |-> 1] : ty \in ScalarTypes}

\* arrayify without the np.ascontiguousarray call: the memory is taken as it is
AsContiguousSkipped(a) == a

\* np.ascontiguousarray(src), line 138: same elements, row-major memory
AsContiguous(a) ==
    IF a.order = "C" THEN a
    ELSE [a EXCEPT
            !.order = "C",
            !.mem = [b \in 1..Len(a.mem) |->
                       LET sz == ItemSize(a.dtype)
                           p  == (b - 1) \div sz
                           q  == FOffset(a.shape, CIndex(a.shape, p))
                       IN  a.mem[q * sz + ((b - 1) % sz) + 1]]]

\* ctypes.memmove(dst, src, n), lines 98 and 142: the first n bytes of dst
\* become the first n bytes of src
Memmove(dst, src, n) ==
    [i \in 1..Len(dst) |-> IF i <= n /\ i <= Len(src) THEN src[i] ELSE dst[i]]

\* src.GetType().FullName / src.dtype / type(src).__name__ in the messages
TypeNameOf(v) ==
    CASE v.tag = "Array" -> <<"System", v.elementType, Len(v.lengths)>>
      [] v.tag = "ndarray" -> <<v.dtype>>
      [] v.tag = "npscalar" -> <<v.type>>
      [] OTHER -> <<v.tag>>

\* GCHandle.Alloc(obj, GCHandleType.Pinned) can pin arrays of primitive
\* (blittable) elements only; for any other array it throws.
Pinnable(arr) == arr.elementType \in NetNumTypes

NoErr == [kind |-> "none", msg |-> <<>>]
NoPin == [held |-> 0, acquired |-> 0, released |-> 0, attempts |-> 0]
NoTrip == [first |-> NoValue, stage |-> 0, round |-> FALSE]

\* ------------------------------------------------- the numeric converters

\* A call of a converter begins: locals are fresh, no handle exists.
NumBegin(op, src, trip) ==
    /\ nOp' = op
    /\ nPc' = "dispatch"
    /\ nSrc' = src
    /\ nDst' = NoValue
    /\ nType' = "none"
    /\ nPending' = "none"
    /\ nErr' = NoErr
    /\ nPin' = NoPin
    /\ nTrip' = trip

\* the converter raises kind(msg) to its caller
NumRaise(kind, msg) ==
    /\ nPc' = "raised"
    /\ nErr' = [kind |-> kind, msg |-> msg]

\* a caller calls numpyify(src) with a .NET array
CallNumpyify ==
    /\ nPc = "idle"
    /\ \E a \in RemoteArrays, round \in BOOLEAN :
          NumBegin("numpyify", a, [first |-> a, stage |-> 1, round |-> round])
    /\ UNCHANGED <<unsupKinds, proxyVars, methVars, appVars, iterVars, normVars>>

\* a caller calls arrayify(src) with a numpy array
CallArrayify ==
    /\ nPc = "idle"
    /\ \E a \in HostArrays, round \in BOOLEAN :
          NumBegin("arrayify", a, [first |-> a, stage |-> 1, round |-> round])
    /\ UNCHANGED <<unsupKinds, proxyVars, methVars, appVars, iterVars, normVars>>

\* numpyify lines 64-90: element type lookup, TypeError when there is none
NumpyifyDispatch ==
    /\ nOp = "numpyify" /\ nPc = "dispatch"
    /\ LET npType == NumpyifyType(nSrc.elementType) IN
         IF npType = "none"
         THEN /\ NumRaise("TypeError",
                          <<"Cannot make numpy arrays from .NET array type",
                            TypeNameOf(nSrc)>>)
              /\ unsupKinds' = unsupKinds \cup {"TypeError"}
              /\ UNCHANGED nType
         ELSE /\ nType' = npType
              /\ nPc' = "alloc"
              /\ UNCHANGED <<nErr, unsupKinds>>
    /\ UNCHANGED <<nOp, nSrc, nDst, nPending, nPin, nTrip, proxyVars, methVars, appVars, iterVars, normVars>>

\* numpyify lines 92-94: shape from GetLength, dst = np.zeros(shape, npType)
NumpyifyAlloc ==
    /\ nOp = "numpyify" /\ nPc = "alloc"
    /\ nDst' = [tag |-> "ndarray", dtype |-> nType, shape |-> nSrc.lengths,
                order |-> "C",
                mem |-> Zeros(Prod(nSrc.lengths) * ItemSize(nType))]
    /\ nPc' = "pin"
    /\ UNCHANGED <<nOp, nSrc, nType, nPending, nErr, nPin, nTrip, unsupKinds,
                   proxyVars, methVars, appVars, iterVars, normVars>>

\* numpyify line 96 / arrayify line 140: GCHandle.Alloc(arr, Pinned) returns a
\* handle, or throws; it is outside the try block, so a throw leaves at once.
PinAlloc(arr) ==
    \/ /\ Pinnable(arr)
       /\ nPin' = [nPin EXCEPT !.held = @ + 1, !.acquired = @ + 1,
                               !.attempts = @ + 1]
       /\ nPc' = "copy"
       /\ UNCHANGED nErr
    \/ /\ nPin' = [nPin EXCEPT !.attempts = @ + 1]
       /\ NumRaise("ArgumentException", <<"cannot pin", TypeNameOf(arr)>>)

NumpyifyPin ==
    /\ nOp = "numpyify" /\ nPc = "pin"
    /\ PinAlloc(nSrc)
    /\ UNCHANGED <<nOp, nSrc, nDst, nType, nPending, nTrip, unsupKinds,
                   proxyVars, methVars, appVars, iterVars, normVars>>

\* numpyify line 98: the try body copies dst.nbytes bytes, or raises
NumpyifyCopy ==
    /\ nOp = "numpyify" /\ nPc = "copy"
    /\ \/ /\ nDst' = [nDst EXCEPT !.mem = Memmove(nDst.mem, nSrc.mem, Len(nDst.mem))]
          /\ UNCHANGED nPending
       \/ /\ nPending' = "ArgumentError"
          /\ UNCHANGED nDst
    /\ nPc' = "free"
    /\ UNCHANGED <<nOp, nSrc, nType, nErr, nPin, nTrip, unsupKinds,
                   proxyVars, methVars, appVars, iterVars, normVars>>

\* Free() placed after the try body instead of in a finally clause: it is
\* skipped when the body raised
FreeAfterBodyOnly ==
    IF nPending = "none"
    THEN /\ nPin' = [nPin EXCEPT !.held = @ - 1, !.released = @ + 1]
         /\ nPc' = "returned" /\ UNCHANGED nErr
    ELSE /\ UNCHANGED nPin
         /\ NumRaise(nPending, <<"memmove">>)

\* finally: handle.Free(), lines 99-100 and 143-144; then return dst, or
\* re-raise what the try body raised
FinallyFree ==
    /\ nPin' = [nPin EXCEPT !.held = @ - 1, !.released = @ + 1]
    /\ IF nPending = "none"
       THEN nPc' = "returned" /\ UNCHANGED nErr
       ELSE NumRaise(nPending, <<"memmove">>)

NumpyifyFree ==
    /\ nOp = "numpyify" /\ nPc = "free"
    /\ FinallyFree
    /\ UNCHANGED <<nOp, nSrc, nDst, nType, nPending, nTrip, unsupKinds,
                   proxyVars, methVars, appVars, iterVars, normVars>>

\* arrayify lines 111-134: dtype lookup, TypeError when there is none
ArrayifyDispatch ==
    /\ nOp = "arrayify" /\ nPc = "dispatch"
    /\ LET netType == ArrayifyType(nSrc.dtype) IN
         IF netType = "none"
         THEN /\ NumRaise("TypeError",
                          <<"Cannot make .NET arrays from numpy type",
                            TypeNameOf(nSrc)>>)
              /\ unsupKinds' = unsupKinds \cup {"TypeError"}
              /\ UNCHANGED nType
         ELSE /\ nType' = netType
              /\ nPc' = "alloc"
              /\ UNCHANGED <<nErr, unsupKinds>>
    /\ UNCHANGED <<nOp, nSrc, nDst, nPending, nPin, nTrip, proxyVars, methVars, appVars, iterVars, normVars>>

\* arrayify lines 136-138: dst = Array.CreateInstance(netType, src.shape);
\* src = np.ascontiguousarray(src)
ArrayifyAlloc ==
    /\ nOp = "arrayify" /\ nPc = "alloc"
    /\ nDst' = [tag |-> "Array", elementType |-> nType, lengths |-> nSrc.shape,
                mem |-> Zeros(Prod(nSrc.shape) * ItemSize(nType))]
    /\ nSrc' = AsContiguous(nSrc)
    /\ nPc' = "pin"
    /\ UNCHANGED <<nOp, nType, nPending, nErr, nPin, nTrip, unsupKinds,
                   proxyVars, methVars, appVars, iterVars, normVars>>

ArrayifyPin ==
    /\ nOp = "arrayify" /\ nPc = "pin"
    /\ PinAlloc(nDst)
    /\ UNCHANGED <<nOp, nSrc, nDst, nType, nPending, nTrip, unsupKinds,
                   proxyVars, methVars, appVars, iterVars, normVars>>

\* arrayify line 142: the try body copies src.nbytes bytes, or raises
ArrayifyCopy ==
    /\ nOp = "arrayify" /\ nPc = "copy"
    /\ \/ /\ nDst' = [nDst EXCEPT !.mem = Memmove(nDst.mem, nSrc.mem, Len(nSrc.mem))]
          /\ UNCHANGED nPending
       \/ /\ nPending' = "ArgumentError"
          /\ UNCHANGED nDst
    /\ nPc' = "free"
    /\ UNCHANGED <<nOp, nSrc, nType, nErr, nPin, nTrip, unsupKinds,
                   proxyVars, methVars, appVars, iterVars, normVars>>

ArrayifyFree ==
    /\ nOp = "arrayify" /\ nPc = "free"
    /\ FinallyFree
    /\ UNCHANGED <<nOp, nSrc, nDst, nType, nPending, nTrip, unsupKinds,
                   proxyVars, methVars, appVars, iterVars, normVars>>

\* systemify(src), lines 149-174: box the scalar, or raise Exception
Systemify ==
    /\ nPc = "idle"
    /\ \E x \in Scalars :
         LET netType == SystemifyType(x.type) IN
           /\ nOp' = "systemify"
           /\ nSrc' = x
           /\ nType' = netType
           /\ nPending' = "none"
           /\ nPin' = NoPin
           /\ nTrip' = NoTrip
           /\ IF netType = "none"
              THEN /\ NumRaise("Exception", <<"Unhandled numpy type", TypeNameOf(x)>>)
                   /\ unsupKinds' = unsupKinds \cup {"Exception"}
                   /\ nDst' = NoValue
              ELSE /\ nPc' = "returned"
                   /\ nErr' = NoErr
                   /\ nDst' = [tag |-> "Boxed", type |-> netType, n |-> x.n]
                   /\ UNCHANGED unsupKinds
    /\ UNCHANGED <<proxyVars, methVars, appVars, iterVars, normVars>>

\* the caller passes the returned array to the opposite converter
ConvertBack ==
    /\ nPc = "returned" /\ nTrip.stage = 1 /\ nTrip.round
    /\ NumBegin(IF nOp = "numpyify" THEN "arrayify" ELSE "numpyify", nDst,
                [nTrip EXCEPT !.stage = 2])
    /\ UNCHANGED <<unsupKinds, proxyVars, methVars, appVars, iterVars, normVars>>

\* the caller has taken the result or the exception; the locals are gone
NumDone ==
    /\ nPc \in {"returned", "raised"}
    /\ ~(nPc = "returned" /\ nTrip.stage = 1 /\ nTrip.round)
    /\ nOp' = "idle" /\ nPc' = "idle"
    /\ nSrc' = NoValue /\ nDst' = NoValue /\ nType' = "none"
    /\ nPending' = "none" /\ nErr' = NoErr /\ nPin' = NoPin /\ nTrip' = NoTrip
    /\ UNCHANGED <<unsupKinds, proxyVars, methVars, appVars, iterVars, normVars>>

NumNext ==
    \/ CallNumpyify \/ NumpyifyDispatch \/ NumpyifyAlloc \/ NumpyifyPin
    \/ NumpyifyCopy \/ NumpyifyFree
    \/ CallArrayify \/ ArrayifyDispatch \/ ArrayifyAlloc \/ ArrayifyPin
    \/ ArrayifyCopy \/ ArrayifyFree
    \/ Systemify \/ ConvertBack \/ NumDone

\* ------------------------------------------------------------ the values

\* An exception travelling up through a pure conversion.
Raise(kind, msg) == [tag |-> "raise", kind |-> kind, msg |-> msg]
IsRaise(v) == v.tag = "raise"

\* remote handles of ScriptClient
ScriptObject(i) == [tag |-> "CPythonScriptObject", id |-> i]
ScriptCollection(i) == [tag |-> "CPythonScriptObjectCollection", id |-> i]
ScriptMethod(i) == [tag |-> "CPythonScriptMethod", id |-> i]

\* host values
PyInt(n) == [tag |-> "int", n |-> n]
PyStr(t) == [tag |-> "str", s |-> t]
PyList(items) == [tag |-> "list", items |-> items]
NpScalar(ty) == [tag |-> "npscalar", type |-> ty, n |-> 1]
PyFloat(n) == [tag |-> "float", n |-> n]
PyBool(n) == [tag |-> "bool", n |-> n]

\* the proxies: PyScriptObject.__init__, PyScriptObjectCollection.__init__,
\* PyScriptMethod.__init__ store the handle in a '_' field
PyScriptObject(h) == [tag |-> "PyScriptObject", handle |-> h]
PyScriptObjectCollection(h) == [tag |-> "PyScriptObjectCollection", handle |-> h]
PyScriptMethod(h) == [tag |-> "PyScriptMethod", handle |-> h]

\* isinstance(x, System.Object) or isinstance(x, System.ValueType)
RemoteTags ==
    {"CPythonScriptObject", "CPythonScriptObjectCollection", "CPythonScriptMethod",
     "Array", "ExpandoObject", "List", "Dictionary", "SortedDictionary",
     "DateTime", "Boxed"}
\* a test that knows the ScriptClient handles only
IsRemoteHandle(x) ==
    x.tag \in {"CPythonScriptObject", "CPythonScriptObjectCollection",
               "CPythonScriptMethod"}

IsRemote(x) == x.tag \in RemoteTags

\* element types that are themselves array types (elementType.IsArray)
ArrayElementTypes == {"Int32[]", "Double[]"}

\* first exception raised while the elements of a sequence were converted in
\* order, or the converted sequence
RECURSIVE FirstRaise(_)
FirstRaise(items) ==
    IF items = <<>> THEN NoValue
    ELSE IF IsRaise(Head(items)) THEN Head(items)
    ELSE FirstRaise(Tail(items))

\* a .NET value as Python code receives it from an element access, a
\* property or a call: primitives arrive as Python values (strings are kept
\* as Python strings throughout), every other value as a reference to the
\* .NET object
ToPython(v) ==
    IF v.tag # "Boxed" THEN v
    ELSE IF v.type = "Boolean" THEN PyBool(v.n)
    ELSE IF v.type \in {"Single", "Double"} THEN PyFloat(v.n)
    ELSE IF v.type \in NetNumTypes THEN PyInt(v.n)
    ELSE v

\* equality of dict keys: Python numbers are equal across int, float, bool
KeyEq(a, b) ==
    IF a.tag \in {"int", "float", "bool"} /\ b.tag \in {"int", "float", "bool"}
    THEN a.n = b.n
    ELSE a = b

\* d[key] = value on a dict kept as its entries in insertion order; an equal
\* key that is present stays as it is and gets the new value
DictSet(entries, key, value) ==
    IF \E i \in DOMAIN entries : KeyEq(entries[i].Key, key)
    THEN [i \in DOMAIN entries |->
            IF KeyEq(entries[i].Key, key)
            THEN [Key |-> entries[i].Key, Value |-> value]
            ELSE entries[i]]
    ELSE Append(entries, [Key |-> key, Value |-> value])

RECURSIVE DictFill(_, _)
DictFill(entries, pairs) ==
    IF pairs = <<>> THEN entries
    ELSE DictFill(DictSet(entries, Head(pairs).Key, Head(pairs).Value), Tail(pairs))

\* numpyify(src) as a value: what lines 62-102 return, or the exception they
\* raise when the element type has no entry or the array cannot be pinned
numpyify(src) ==
    LET npType == NumpyifyType(src.elementType)
        nbytes == Prod(src.lengths) * ItemSize(npType)
    IN  IF npType = "none"
        THEN Raise("TypeError", <<"Cannot make numpy arrays from .NET array type",
                                  TypeNameOf(src)>>)
        ELSE IF ~Pinnable(src)
        THEN Raise("ArgumentException", <<"cannot pin", TypeNameOf(src)>>)
        ELSE [tag |-> "ndarray", dtype |-> npType, shape |-> src.lengths,
              order |-> "C", mem |-> Memmove(Zeros(nbytes), src.mem, nbytes)]

\* arrayify(src) as a value: what lines 105-146 return, or the TypeError
arrayify(src) ==
    LET netType == ArrayifyType(src.dtype)
        contiguous == AsContiguous(src)
    IN  IF netType = "none"
        THEN Raise("TypeError", <<"Cannot make .NET arrays from numpy type",
                                  TypeNameOf(src)>>)
        ELSE [tag |-> "Array", elementType |-> netType, lengths |-> src.shape,
              mem |-> Memmove(Zeros(Prod(src.shape) * ItemSize(netType)),
                              contiguous.mem, Len(contiguous.mem))]

\* systemify(src) as a value: the boxed scalar, or the Exception
systemify(src) ==
    LET netType == SystemifyType(src.type)
    IN  IF netType = "none"
        THEN Raise("Exception", <<"Unhandled numpy type", TypeNameOf(src)>>)
        ELSE [tag |-> "Boxed", type |-> netType, n |-> src.n]

\* System.Convert.ChangeType(key, key_type) in sorted_dict.__setitem__
ChangeType(key, key_type) ==
    IF key.tag \in {"int", "bool", "npscalar", "Boxed", "float"}
          /\ key_type \in NetNumTypes
    THEN ToPython([tag |-> "Boxed", type |-> key_type, n |-> key.n])
    ELSE IF key_type = "Object" THEN key
    ELSE IF key.tag = "str" /\ key_type = "String" THEN key
    ELSE Raise("InvalidCastException", <<key.tag, key_type>>)

RECURSIVE pyobjify(_)

\* array_list.__init__(l, p), lines 267-274
array_list(l, p) ==
    IF l = NoValue
    THEN Raise("TypeError", <<"descriptor __init__ requires a dict object">>)
    ELSE LET items == IF p
                      THEN [i \in DOMAIN l.items |-> pyobjify(ToPython(l.items[i]))]
                      ELSE [i \in DOMAIN l.items |-> ToPython(l.items[i])]
         IN  IF FirstRaise(items) # NoValue THEN FirstRaise(items)
             ELSE [tag |-> "array_list", items |-> items]

\* sorted_dict.__init__(d) for a remote SortedDictionary, lines 237-248, with
\* __setitem__, lines 250-256
SortedDictOf(d) ==
    LET key_type == d.keyType
        pairs == [i \in DOMAIN d.entries |->
                    [Key |-> ChangeType(pyobjify(ToPython(d.entries[i].Key)),
                                        key_type),
                     Value |-> pyobjify(ToPython(d.entries[i].Value))]]
    IN  [tag |-> "sorted_dict", key_type |-> key_type,
         entries |-> DictFill(<<>>, pairs)]

\* pyobjify(x), lines 277-317
pyobjify(x) ==
    IF x.tag \in {"list", "array_list"}
    THEN LET items == [i \in DOMAIN x.items |-> pyobjify(x.items[i])]
         IN  IF FirstRaise(items) # NoValue THEN FirstRaise(items)
             ELSE PyList(items)
    ELSE IF ~IsRemote(x) THEN x
    ELSE IF x.tag = "CPythonScriptObject" THEN PyScriptObject(x)
    ELSE IF x.tag = "CPythonScriptObjectCollection" THEN PyScriptObjectCollection(x)
    ELSE IF x.tag = "Array"
    THEN IF x.elementType \in ArrayElementTypes THEN array_list(x, TRUE)
         ELSE IF IsAssignableFrom(x.elementType, "String") THEN array_list(x, FALSE)
         ELSE IF x.elementType = "CPythonScriptObject"
         THEN PyList([i \in DOMAIN x.items |-> PyScriptObject(x.items[i])])
         ELSE numpyify(x)
    ELSE IF x.tag = "CPythonScriptMethod" THEN PyScriptMethod(x)
    ELSE IF x.tag = "ExpandoObject"
    THEN [tag |-> "ExpandoDictionary",
          entries |-> DictFill(<<>>, [i \in DOMAIN x.entries |->
                         [Key |-> ToPython(x.entries[i].Key),
                          Value |-> ToPython(x.entries[i].Value)]])]
    ELSE IF x.tag = "List"
    THEN LET items == [i \in DOMAIN x.items |-> pyobjify(ToPython(x.items[i]))]
         IN  IF FirstRaise(items) # NoValue THEN FirstRaise(items)
             ELSE PyList(items)
    ELSE IF x.tag = "Dictionary"
    THEN [tag |-> "dict",
          entries |-> DictFill(<<>>, [i \in DOMAIN x.entries |->
                         [Key |-> pyobjify(ToPython(x.entries[i].Key)),
                          Value |-> pyobjify(ToPython(x.entries[i].Value))]])]
    ELSE IF x.tag = "SortedDictionary" THEN SortedDictOf(x)
    ELSE x

\* the remote map built by retVal[clrify(k)] = clrify(v) over x.items()
RECURSIVE clrify(_)
ClrifyEntries(entries) ==
    LET pairs == [i \in DOMAIN entries |->
                    [Key |-> clrify(entries[i].Key),
                     Value |-> clrify(entries[i].Value)]]
        flat == [i \in 1..(2 * Len(pairs)) |->
                    IF i % 2 = 1 THEN pairs[(i + 1) \div 2].Key
                    ELSE pairs[i \div 2].Value]
    IN  IF FirstRaise(flat) # NoValue THEN FirstRaise(flat)
        ELSE [tag |-> "entries", entries |-> DictFill(<<>>, pairs)]

\* an array that holds the elements in reverse order
ArrayOfObjectReversed(items) ==
    [tag |-> "Array", elementType |-> "Object", lengths |-> <<Len(items)>>,
     items |-> [i \in DOMAIN items |-> items[Len(items) + 1 - i]]]

\* the host list handed on instead of an array
ArrayOfObjectAsList(items) == [tag |-> "list", items |-> items]

\* System.Array[System.Object](x), lines 344 and 346: a remote array of
\* object type holding the elements of the host sequence in order
ArrayOfObject(items) ==
    [tag |-> "Array", elementType |-> "Object", lengths |-> <<Len(items)>>,
     items |-> items]

\* a proxy handed on as it is
UnwrapSkipped(x) == x

\* x._scriptObject, x._scriptObjectCollection, lines 328 and 330: the field
\* __init__ stored the handle in
Unwrap(x) == x.handle

\* clrify(x), lines 320-359
clrify(x) ==
    IF x.tag = "PyScriptObject" THEN Unwrap(x)
    ELSE IF x.tag = "PyScriptObjectCollection" THEN Unwrap(x)
    ELSE IF x.tag = "sorted_dict"
    THEN LET e == ClrifyEntries(x.entries)
         IN  IF IsRaise(e) THEN e
             ELSE [tag |-> "SortedDictionary", keyType |-> "Object",
                   entries |-> e.entries]
    ELSE IF x.tag \in {"dict", "ExpandoDictionary"}
    THEN LET e == ClrifyEntries(x.entries)
         IN  IF IsRaise(e) THEN e
             ELSE [tag |-> "Dictionary", keyType |-> "Object",
                   entries |-> e.entries]
    ELSE IF x.tag = "array_list"
    THEN IF x.items = <<>> THEN ArrayOfObject(x.items)
         ELSE IF IsRaise(clrify(x.items[1])) THEN clrify(x.items[1])
         ELSE IF clrify(x.items[1]) = x.items[1] THEN ArrayOfObject(x.items)
         ELSE LET items == [i \in DOMAIN x.items |-> clrify(x.items[i])]
              IN  IF FirstRaise(items) # NoValue THEN FirstRaise(items)
                  ELSE ArrayOfObject(items)
    ELSE IF x.tag = "list"
    THEN IF x.items = <<>> THEN x
         ELSE IF IsRaise(clrify(x.items[1])) THEN clrify(x.items[1])
         ELSE IF clrify(x.items[1]) = x.items[1] THEN x
         ELSE LET items == [i \in DOMAIN x.items |-> clrify(x.items[i])]
              IN  IF FirstRaise(items) # NoValue THEN FirstRaise(items)
                  ELSE PyList(items)
    ELSE IF x.tag = "ndarray" THEN arrayify(x)
    ELSE IF x.tag = "npscalar" /\ x.type # "pybool" THEN systemify(x)
    ELSE x

\* -------------------------------------------------------- PyScriptObject

\* Attribute names are the first character followed by the rest.
MemberName  == <<"N", "ame">>           \* a member the remote object has
MissingName == <<"F", "oo">>            \* a member it does not have
EqualsName  == <<"E", "quals">>         \* PyScriptObject.Equals, lines 452-453
HandleName  == <<"_", "scriptObject">>  \* set by __init__, line 456
TmpName     == <<"_", "tmp">>           \* a '_' name __init__ does not set

\* str.startswith
StartsWith(str, prefix) ==
    /\ Len(str) >= Len(prefix)
    /\ SubSeq(str, 1, Len(prefix)) = prefix

\* "Object has no member", line 471
NoMemberPrefix ==
    <<"O", "b", "j", "e", "c", "t", " ", "h", "a", "s", " ", "n", "o", " ",
      "m", "e", "m", "b", "e", "r">>

\* the message of the remote error for a member the object does not have
NoMemberMsg(name) == NoMemberPrefix \o <<":", " ">> \o name

\* messages of other remote errors
OtherMsgs ==
    {<<"O", "b", "j", "e", "c", "t", " ", "h", "a", "s", " ", "n", "o", " ",
       "m", "e", "a", "n", "s">>,
     <<"T", "h", "e", " ">> \o NoMemberPrefix}

\* outcome of a host operation
Outcome(kind, value, msg) == [kind |-> kind, value |-> value, msg |-> msg]
NoOutcome == Outcome("none", NoValue, <<>>)

\* what the remote runtime answers to a call
Answer(ok, value, msg) == [ok |-> ok, value |-> value, msg |-> msg]

\* what CPythonScriptObject.GetMember(name) can answer: the member's value,
\* the no-member error, or another remote error
GetMemberAnswers(name) ==
    (IF name \in DOMAIN oRemote
     THEN {Answer(TRUE, oRemote[name], <<>>)}
     ELSE {Answer(FALSE, NoValue, NoMemberMsg(name))})
    \cup {Answer(FALSE, NoValue, m) : m \in OtherMsgs}

\* what CPythonScriptObject.SetMember(name, value) answers
SetMemberAnswer(name) ==
    IF name \in DOMAIN oRemote THEN Answer(TRUE, NoValue, <<>>)
    ELSE Answer(FALSE, NoValue, NoMemberMsg(name))

\* the remote calls self._scriptObject.GetMember / SetMember, with the answer
GetMemberCall(name, answer) ==
    [op |-> "GetMember", handle |-> oDict[HandleName], name |-> name,
     value |-> NoValue, answer |-> answer]

SetMemberCall(name, value, answer) ==
    [op |-> "SetMember", handle |-> oDict[HandleName], name |-> name,
     value |-> value, answer |-> answer]

\* __getattr__ without the translation: every remote error is re-raised
ObjectGetattrUntranslated(name, answer) ==
    IF ~answer.ok
    THEN Outcome("RemoteError", NoValue, answer.msg)
    ELSE Outcome("value", pyobjify(answer.value), <<>>)

\* PyScriptObject.__getattr__(name), lines 463-477, given the remote answer
ObjectGetattr(name, answer) ==
    IF ~answer.ok
    THEN IF StartsWith(answer.msg, NoMemberPrefix)
         THEN Outcome("AttributeError", NoValue, answer.msg)
         ELSE Outcome("RemoteError", NoValue, answer.msg)
    ELSE LET x == pyobjify(answer.value)
         IN  IF IsRaise(x) THEN Outcome(x.kind, NoValue, x.msg)
             ELSE Outcome("value", x, <<>>)

\* names object.__getattribute__ finds on the class before __getattr__ is tried
ClassAttributes == {EqualsName}

\* Reading proxy.<name>: the instance __dict__, the class attributes, and
\* only then __getattr__.  Yields the outcome and the remote calls issued.
ReadAttribute(name, answer) ==
    IF name \in DOMAIN oDict
    THEN [calls |-> <<>>, out |-> Outcome("value", oDict[name], <<>>)]
    ELSE IF name \in ClassAttributes
    THEN [calls |-> <<>>,
          out |-> Outcome("value", [tag |-> "method", name |-> name], <<>>)]
    ELSE [calls |-> <<GetMemberCall(name, answer)>>,
          out |-> ObjectGetattr(name, answer)]

\* builtin hasattr: False on AttributeError, True on a value, any other
\* exception passes
HasattrOutcome(out) ==
    IF out.kind = "value" THEN Outcome("bool", [tag |-> "bool", b |-> TRUE], <<>>)
    ELSE IF out.kind = "AttributeError"
    THEN Outcome("bool", [tag |-> "bool", b |-> FALSE], <<>>)
    ELSE out

\* __setattr__ taking every name for a host-local one
IsReservedNameAlways(name) == TRUE

\* name.startswith("_"), line 484
IsReservedName(name) == StartsWith(name, <<"_">>)

ObjReadNames == {MemberName, MissingName, EqualsName, HandleName, TmpName}
ObjWriteNames == {MemberName, MissingName, EqualsName, TmpName}
ObjValues == {PyInt(7), PyScriptObject(ScriptObject(2)), NpScalar("float16")}

\* a host operation on the proxy and the number of remote calls it issued
HostOp(op, name, value, calls) ==
    [op |-> op, name |-> name, value |-> value, calls |-> calls]

\* x = proxy.<name>
ObjGet ==
    /\ Len(oHost) < MaxOps
    /\ \E name \in ObjReadNames : \E answer \in GetMemberAnswers(name) :
         LET r == ReadAttribute(name, answer) IN
           /\ oCalls' = oCalls \o r.calls
           /\ oResult' = r.out
           /\ oHost' = Append(oHost, HostOp("get", name, NoValue, Len(r.calls)))
    /\ UNCHANGED <<oDict, oRemote, numVars, methVars, appVars, iterVars, normVars>>

\* hasattr(proxy, "<name>")
ObjHasattr ==
    /\ Len(oHost) < MaxOps
    /\ \E name \in ObjReadNames : \E answer \in GetMemberAnswers(name) :
         LET r == ReadAttribute(name, answer) IN
           /\ oCalls' = oCalls \o r.calls
           /\ oResult' = HasattrOutcome(r.out)
           /\ oHost' = Append(oHost, HostOp("hasattr", name, NoValue, Len(r.calls)))
    /\ UNCHANGED <<oDict, oRemote, numVars, methVars, appVars, iterVars, normVars>>

\* proxy.<name> = value: PyScriptObject.__setattr__, lines 479-487.  A '_'
\* name goes to object.__setattr__; any other name goes to SetMember with
\* clrify(value), unless clrify raises.
ObjSet ==
    /\ Len(oHost) < MaxOps
    /\ \E name \in ObjWriteNames, value \in ObjValues :
         IF IsReservedName(name)
         THEN /\ oResult' = NoOutcome
              /\ oDict' = [n \in DOMAIN oDict \cup {name} |->
                             IF n = name THEN value ELSE oDict[n]]
              /\ oHost' = Append(oHost, HostOp("set", name, value, 0))
              /\ UNCHANGED <<oCalls, oRemote>>
         ELSE LET v == clrify(value)
                  answer == SetMemberAnswer(name)
              IN  IF IsRaise(v)
                  THEN /\ oResult' = Outcome(v.kind, NoValue, v.msg)
                       /\ oHost' = Append(oHost, HostOp("set", name, value, 0))
                       /\ UNCHANGED <<oCalls, oRemote, oDict>>
                  ELSE /\ oCalls' = Append(oCalls, SetMemberCall(name, v, answer))
                       /\ oHost' = Append(oHost, HostOp("set", name, value, 1))
                       /\ IF answer.ok
                          THEN /\ oRemote' = [oRemote EXCEPT ![name] = v]
                               /\ oResult' = NoOutcome
                          ELSE /\ oResult' = Outcome("RemoteError", NoValue, answer.msg)
                               /\ UNCHANGED oRemote
                       /\ UNCHANGED oDict
    /\ UNCHANGED <<numVars, methVars, appVars, iterVars, normVars>>

ProxyNext == ObjGet \/ ObjHasattr \/ ObjSet

\* -------------------------------------------------------- PyScriptMethod

ArgNames == {"a", "b", "c"}
ArgValues ==
    {PyInt(1), PyScriptObject(ScriptObject(2)),
     PyList(<<PyScriptObject(ScriptObject(2)), PyInt(1)>>),
     NpScalar("int32"), NpScalar("float16")}

\* **kwargs: the (name, value) pairs in call order, names distinct
KwargsOfLen(n) ==
    {kw \in [1..n -> [name : ArgNames, value : ArgValues]] :
        \A i, j \in 1..n : i # j => kw[i].name # kw[j].name}
AllKwargs == UNION {KwargsOfLen(n) : n \in 0..MaxKwargs}

\* *args
AllArgs == UNION {[1..n -> ArgValues] : n \in 0..MaxArgs}

\* what CPythonScriptMethod.Invoke can answer: a value or a remote error
InvokeAnswers ==
    {Answer(TRUE, PyInt(0), <<>>), Answer(TRUE, ScriptObject(4), <<>>),
     Answer(TRUE, NetArray("Decimal", <<1>>), <<>>),
     Answer(FALSE, NoValue, <<"Invoke failed">>)}

\* the values [clrify(y) for y in kwargs.values()] passes to clrify before it
\* ends: all of them, or those up to the first one clrify raises on
ConvertedUpTo(kwargs) ==
    LET bad == {i \in DOMAIN kwargs : IsRaise(clrify(kwargs[i].value))}
        last == IF bad = {} THEN Len(kwargs)
                ELSE CHOOSE i \in bad : \A j \in bad : i <= j
    IN  [i \in 1..last |-> kwargs[i].value]

\* the value array built from the keyword values in reverse order
KeywordCallReversed(kwargs, answer) ==
    LET n == Len(kwargs)
        vals == [i \in DOMAIN kwargs |-> clrify(kwargs[n + 1 - i].value)]
        keys == [i \in DOMAIN kwargs |-> kwargs[i].name]
    IN  IF FirstRaise(vals) # NoValue
        THEN [converted |-> ConvertedUpTo(kwargs), invokes |-> <<>>,
              out |-> Outcome(FirstRaise(vals).kind, NoValue, FirstRaise(vals).msg)]
        ELSE [converted |-> ConvertedUpTo(kwargs),
              invokes |-> <<[handle |-> ScriptMethod(1), keys |-> keys,
                             vals |-> vals]>>,
              out |-> IF ~answer.ok
                      THEN Outcome("RemoteError", NoValue, answer.msg)
                      ELSE LET r == pyobjify(answer.value)
                           IN  IF IsRaise(r) THEN Outcome(r.kind, NoValue, r.msg)
                               ELSE Outcome("value", r, <<>>)]

\* PyScriptMethod.__call__, lines 675-677: vals and keys from kwargs, one
\* Invoke, pyobjify of its result
KeywordCall(kwargs, answer) ==
    LET vals == [i \in DOMAIN kwargs |-> clrify(kwargs[i].value)]
        keys == [i \in DOMAIN kwargs |-> kwargs[i].name]
    IN  IF FirstRaise(vals) # NoValue
        THEN [converted |-> ConvertedUpTo(kwargs), invokes |-> <<>>,
              out |-> Outcome(FirstRaise(vals).kind, NoValue, FirstRaise(vals).msg)]
        ELSE [converted |-> ConvertedUpTo(kwargs),
              invokes |-> <<[handle |-> ScriptMethod(1), keys |-> keys,
                             vals |-> vals]>>,
              out |-> IF ~answer.ok
                      THEN Outcome("RemoteError", NoValue, answer.msg)
                      ELSE LET r == pyobjify(answer.value)
                           IN  IF IsRaise(r) THEN Outcome(r.kind, NoValue, r.msg)
                               ELSE Outcome("value", r, <<>>)]

\* __call__ that rejects positional arguments only when no keyword is given
MethodCallLenient(args, kwargs, answer) ==
    IF Len(args) > 0 /\ kwargs = <<>>
    THEN [converted |-> <<>>, invokes |-> <<>>,
          out |-> Outcome("TypeError", NoValue,
                          <<"Method must be called with named arguments.">>)]
    ELSE KeywordCall(kwargs, answer)

\* PyScriptMethod.__call__(*args, **kwargs), lines 669-677, on the method
\* handle of the proxy, given the remote answer
MethodCall(args, kwargs, answer) ==
    IF Len(args) > 0
    THEN [converted |-> <<>>, invokes |-> <<>>,
          out |-> Outcome("TypeError", NoValue,
                          <<"Method must be called with named arguments.">>)]
    ELSE KeywordCall(kwargs, answer)

\* method(*args, **kwargs) on a PyScriptMethod
MethCall ==
    /\ mResult = NoOutcome
    /\ \E args \in AllArgs, kwargs \in AllKwargs, answer \in InvokeAnswers :
         LET r == MethodCall(args, kwargs, answer) IN
           /\ mCall' = [args |-> args, kwargs |-> kwargs,
                        answer |-> IF r.invokes = <<>> THEN NoValue ELSE answer]
           /\ mConverted' = r.converted
           /\ mInvokes' = r.invokes
           /\ mResult' = r.out
    /\ UNCHANGED <<numVars, proxyVars, iterVars, normVars, appVars>>

\* the caller drops the result; the proxy method itself keeps no state
MethForget ==
    /\ mResult # NoOutcome
    /\ mCall' = NoValue /\ mConverted' = <<>> /\ mInvokes' = <<>>
    /\ mResult' = NoOutcome
    /\ UNCHANGED <<numVars, proxyVars, iterVars, normVars, appVars>>

MethNext == MethCall \/ MethForget

\* ----------------------------- PyScriptObjectCollection and its iterator

\* len(collection): the module's len, lines 422-440, calls __len__, lines
\* 585-587, which reads the remote Count
CollectionLen == Len(cItems)

\* an element handed out as the raw remote handle
CollectionGetItemRaw(key) == cItems[key + 1]

\* collection[key] for an integer key: __getitem__, lines 580-583
CollectionGetItem(key) == pyobjify(cItems[key + 1])

\* an iterator that starts at the second element
NewIteratorFromOne ==
    [index |-> 1, yielded |-> <<>>, stops |-> 0, mutated |-> FALSE]

\* PyScriptValueIterator.__init__, lines 517-519
NewIterator ==
    [index |-> 0, yielded |-> <<>>, stops |-> 0, mutated |-> FALSE]

\* an iterator that ends as soon as the collection has changed under it
IteratorNextFrozen(it) ==
    IF it.index >= CollectionLen \/ it.mutated
    THEN [it EXCEPT !.stops = @ + 1]
    ELSE [it EXCEPT !.yielded = Append(@, [index |-> it.index,
                                           value |-> CollectionGetItem(it.index)]),
                    !.index = it.index + 1]

\* PyScriptValueIterator.__next__ on an iterator record, lines 521-528
IteratorNext(it) ==
    IF it.index >= CollectionLen
    THEN [it EXCEPT !.stops = @ + 1]
    ELSE [it EXCEPT !.yielded = Append(@, [index |-> it.index,
                                           value |-> CollectionGetItem(it.index)]),
                    !.index = it.index + 1]

\* the collection hands out an iterator that continues where the newest
\* one stands
CollIterShared ==
    /\ Len(iters) < MaxIters
    /\ iters' = Append(iters, IF iters = <<>> THEN NewIterator
                              ELSE [NewIterator EXCEPT
                                       !.index = iters[Len(iters)].index])
    /\ UNCHANGED <<cItems, cMuts, cSeen, numVars, proxyVars, methVars, appVars, normVars>>

\* iter(collection): PyScriptObjectCollection.__iter__, lines 589-595
CollIter ==
    /\ Len(iters) < MaxIters
    /\ iters' = Append(iters, NewIterator)
    /\ UNCHANGED <<cItems, cMuts, cSeen, numVars, proxyVars, methVars, appVars, normVars>>

\* next(it)
IterNext ==
    /\ \E k \in DOMAIN iters :
         /\ iters[k].stops < MaxStops
         /\ iters' = [iters EXCEPT ![k] = IteratorNext(iters[k])]
    /\ UNCHANGED <<cItems, cMuts, cSeen, numVars, proxyVars, methVars, appVars, normVars>>

\* the remote runtime adds an element at the end of the collection
RemoteAppend ==
    /\ cMuts < MaxMuts
    /\ cMuts' = cMuts + 1
    /\ cItems' = Append(cItems, ScriptObject(MaxLen + cMuts + 1))
    /\ iters' = [k \in DOMAIN iters |-> [iters[k] EXCEPT !.mutated = TRUE]]
    /\ UNCHANGED <<cSeen, numVars, proxyVars, methVars, appVars, normVars>>

\* the remote runtime removes the element at one position
RemoteRemove ==
    /\ cMuts < MaxMuts
    /\ cMuts' = cMuts + 1
    /\ \E p \in DOMAIN cItems :
         cItems' = [i \in 1..(Len(cItems) - 1) |->
                      IF i < p THEN cItems[i] ELSE cItems[i + 1]]
    /\ iters' = [k \in DOMAIN iters |-> [iters[k] EXCEPT !.mutated = TRUE]]
    /\ UNCHANGED <<cSeen, numVars, proxyVars, methVars, appVars, normVars>>

CollNext == CollIter \/ IterNext \/ RemoteAppend \/ RemoteRemove

\* the key under which the remote collection holds the element h
KeyOfElement(h) == PyStr(<<"K", h.id>>)

\* the keys a script looks up: every index 0..MaxLen, the key of every
\* element a collection can hold and one more
LookupKeys ==
    {PyInt(i) : i \in 0..MaxLen} \cup {PyStr(<<"K", i>>) : i \in 1..(MaxLen + 1)}

\* self._scriptObjectCollection[key], line 582: the remote indexer answers
\* with the element at an index or under a key, or with a remote error
RemoteIndexer(key) ==
    IF key.tag = "int"
    THEN IF key.n < Len(cItems) THEN Answer(TRUE, cItems[key.n + 1], <<>>)
         ELSE Answer(FALSE, NoValue, <<"Index out of range">>)
    ELSE IF \E i \in DOMAIN cItems : KeyOfElement(cItems[i]) = key
    THEN Answer(TRUE, cItems[CHOOSE i \in DOMAIN cItems :
                                 KeyOfElement(cItems[i]) = key], <<>>)
    ELSE Answer(FALSE, NoValue, <<"Key not found">>)

\* collection[key] for any key: __getitem__, lines 580-583; a remote error
\* passes through
CollectionLookup(key) ==
    LET a == RemoteIndexer(key)
    IN  IF ~a.ok THEN Outcome("RemoteError", NoValue, a.msg)
        ELSE IF key.tag = "int"
        THEN Outcome("value", CollectionGetItem(key.n), <<>>)
        ELSE Outcome("value", pyobjify(a.value), <<>>)

\* the script evaluates len(collection)
CollLen ==
    /\ cSeen' = [op |-> "len", key |-> NoValue,
                 out |-> Outcome("value", PyInt(CollectionLen), <<>>)]
    /\ UNCHANGED <<cItems, cMuts, iters, numVars, proxyVars, methVars, appVars, normVars>>

\* the script evaluates collection[key]
CollGetItem ==
    /\ \E key \in LookupKeys :
         cSeen' = [op |-> "getitem", key |-> key, out |-> CollectionLookup(key)]
    /\ UNCHANGED <<cItems, cMuts, iters, numVars, proxyVars, methVars, appVars, normVars>>

\* collection.keys(), collection.has_key(key), collection.values(), lines
\* 597-613.  Keys is the property of lines 631-638, the host list of the
\* remote keys; keys() calls what the property returns, and has_key and
\* values use self.keys, the bound method, where a sequence is expected.
CollectionView(op, key) ==
    LET Keys == PyList([i \in DOMAIN cItems |-> KeyOfElement(cItems[i])])
        keys == [tag |-> "method", name |-> <<"k", "eys">>]
        Call(f) ==
            IF f.tag = "method" THEN Outcome("value", Keys, <<>>)
            ELSE Outcome("TypeError", NoValue,
                         <<f.tag, "object is not callable">>)
        Iterate(v) ==
            IF v.tag = "list" THEN Outcome("value", v, <<>>)
            ELSE Outcome("TypeError", NoValue,
                         <<v.tag, "object is not iterable">>)
    IN  IF op = "keys" THEN Call(Keys)
        ELSE LET it == Iterate(keys)
             IN  IF it.kind # "value" THEN it
                 ELSE IF op = "has_key"
                 THEN Outcome("value",
                              PyBool(IF \E i \in DOMAIN it.value.items :
                                          it.value.items[i] = key
                                     THEN 1 ELSE 0), <<>>)
                 ELSE Outcome("value",
                              PyList([i \in DOMAIN it.value.items |->
                                 CollectionLookup(it.value.items[i]).value]),
                              <<>>)

\* the script evaluates collection.keys(), collection.has_key(key) or
\* collection.values()
CollView ==
    /\ \E op \in {"keys", "has_key", "values"},
          key \in {k \in LookupKeys : k.tag = "str"} :
         cSeen' = [op |-> op, key |-> IF op = "has_key" THEN key ELSE NoValue,
                   out |-> CollectionView(op, key)]
    /\ UNCHANGED <<cItems, cMuts, iters, numVars, proxyVars, methVars, appVars, normVars>>

\* PyScriptObjectCollection.__getattr__(name), lines 575-578, given the
\* answer of the remote GetMember: nothing is caught
CollectionGetattr(name, answer) ==
    IF ~answer.ok THEN Outcome("RemoteError", NoValue, answer.msg)
    ELSE LET x == pyobjify(answer.value)
         IN  IF IsRaise(x) THEN Outcome(x.kind, NoValue, x.msg)
             ELSE Outcome("value", x, <<>>)

\* the script evaluates collection.<name>, or hasattr(collection, name), for
\* the dot-syntax name of the first element or for a name the collection
\* does not have; the remote GetMember answers with the element, with its
\* no-member error or with another remote error
CollGetattr ==
    /\ \E name \in {<<"_", "K1">>, MissingName}, has \in BOOLEAN :
         \E answer \in
               (IF name = <<"_", "K1">> /\ cItems # <<>>
                THEN {Answer(TRUE, cItems[1], <<>>)}
                ELSE {Answer(FALSE, NoValue, NoMemberMsg(name))})
               \cup {Answer(FALSE, NoValue, m) : m \in OtherMsgs} :
            cSeen' = [op |-> IF has THEN "hasattr" ELSE "getattr",
                      key |-> PyStr(name), answer |-> answer,
                      out |-> IF has
                              THEN HasattrOutcome(CollectionGetattr(name, answer))
                              ELSE CollectionGetattr(name, answer)]
    /\ UNCHANGED <<cItems, cMuts, iters, numVars, proxyVars, methVars, appVars, normVars>>

\* lookups and iteration on a collection the remote runtime leaves alone
CollLookNext ==
    CollIter \/ IterNext \/ CollLen \/ CollGetItem \/ CollView \/ CollGetattr

\* ------------------------------------------------------------ sorted_dict

HostDict(entries) == [tag |-> "dict", entries |-> entries]
SortedDictionary(keyType, entries) ==
    [tag |-> "SortedDictionary", keyType |-> keyType, entries |-> entries]

\* d arguments: None, host dicts, remote SortedDictionaries, a remote List
SdData ==
    {NoValue, HostDict(<<>>), HostDict(<<[Key |-> PyInt(1), Value |-> PyInt(7)]>>),
     SortedDictionary("Double", <<>>),
     SortedDictionary("Double",
        <<[Key |-> [tag |-> "Boxed", type |-> "Double", n |-> 1],
           Value |-> [tag |-> "Boxed", type |-> "Int32", n |-> 7]]>>),
     SortedDictionary("Int32",
        <<[Key |-> [tag |-> "Boxed", type |-> "Int32", n |-> 2],
           Value |-> ScriptObject(2)]>>),
     [tag |-> "List", items |-> <<>>]}

\* keys the script inserts
SdKeys == {PyInt(1), PyInt(2), PyFloat(1), PyStr(<<"a">>)}

\* "if d:", line 232: None and an empty host container are false, a host
\* container with elements and a .NET object with elements are true; an
\* empty .NET collection is false where the bridge gives collections a
\* length and true where it does not
Truthy(d) ==
    IF d = NoValue THEN {FALSE}
    ELSE IF d.tag = "dict" THEN {d.entries # <<>>}
    ELSE IF d.tag = "List" THEN IF d.items = <<>> THEN {TRUE, FALSE} ELSE {TRUE}
    ELSE IF d.entries = <<>> THEN {TRUE, FALSE} ELSE {TRUE}

\* the state of a sorted_dict after __init__(d, key_type) raised err or
\* returned
SdState(d, kt, err, key_type, entries) ==
    [made |-> err = "none", key_type |-> key_type, entries |-> entries,
     d |-> d, kt |-> kt, ctor |-> err, out |-> err, n |-> 0]

\* sorted_dict.__init__(d, key_type), lines 222-248; the class attribute
\* key_type is None, line 220
SortedDictInit(d, key_type, truthy) ==
    IF key_type # "None"
    THEN IF truthy THEN SdState(d, key_type, "ValueError", "None", <<>>)
         ELSE SdState(d, key_type, "none", key_type, <<>>)
    ELSE IF d = NoValue \/ ~IsRemote(d) \/ d.tag # "SortedDictionary"
    THEN SdState(d, key_type, "TypeError", "None", <<>>)
    ELSE SdState(d, key_type, "none", SortedDictOf(d).key_type,
                 SortedDictOf(d).entries)

\* sorted_dict.__setitem__(key, value), lines 250-256
SortedDictSetItem(key, value) ==
    LET converted_key == ChangeType(key, sd.key_type)
    IN  IF IsRaise(converted_key)
        THEN [sd EXCEPT !.out = converted_key.kind, !.n = @ + 1]
        ELSE [sd EXCEPT !.entries = DictSet(@, converted_key, value),
                        !.out = "none", !.n = @ + 1]

\* sd = sorted_dict(d, key_type)
SdConstruct ==
    /\ sd = NoValue
    /\ \E d \in SdData, key_type \in {"None", "Double", "Int32"} : \E truthy \in Truthy(d) :
          sd' = SortedDictInit(d, key_type, truthy)
    /\ UNCHANGED <<ex, g, numVars, proxyVars, methVars, appVars, iterVars>>

\* sd[key] = value
SdSetItem ==
    /\ sd # NoValue /\ sd.made /\ sd.n < MaxSdOps
    /\ \E key \in SdKeys, value \in {PyInt(7), PyInt(8)} :
          sd' = SortedDictSetItem(key, value)
    /\ UNCHANGED <<ex, g, numVars, proxyVars, methVars, appVars, iterVars>>

\* sd.update({key: value}): sorted_dict inherits dict.update, line 209, which
\* stores the pairs without calling the __setitem__ of the subclass
SdUpdate ==
    /\ sd # NoValue /\ sd.made /\ sd.n < MaxSdOps
    /\ \E key \in SdKeys, value \in {PyInt(7), PyInt(8)} :
          sd' = [sd EXCEPT !.entries = DictSet(@, key, value),
                           !.out = "none", !.n = @ + 1]
    /\ UNCHANGED <<ex, g, numVars, proxyVars, methVars, appVars, iterVars>>

\* sd.setdefault(key, value): inherited from dict as well; stores the pair
\* when no equal key is present
SdSetdefault ==
    /\ sd # NoValue /\ sd.made /\ sd.n < MaxSdOps
    /\ \E key \in SdKeys, value \in {PyInt(7), PyInt(8)} :
          sd' = [sd EXCEPT
                   !.entries = IF \E i \in DOMAIN @ : KeyEq(@[i].Key, key)
                               THEN @ ELSE DictSet(@, key, value),
                   !.out = "none", !.n = @ + 1]
    /\ UNCHANGED <<ex, g, numVars, proxyVars, methVars, appVars, iterVars>>

SdNext == SdConstruct \/ SdSetItem \/ SdUpdate \/ SdSetdefault

\* ------------------------------------------ values crossing the boundary

Boxed(type, n) == [tag |-> "Boxed", type |-> type, n |-> n]
NetList(items) == [tag |-> "List", items |-> items]

\* a System.Array of references or strings: element type and elements
ObjectArray(elementType, items) ==
    [tag |-> "Array", elementType |-> elementType, lengths |-> <<Len(items)>>,
     items |-> items]

SeqsUpTo(S, n) == UNION {[1..k -> S] : k \in 0..n}

\* key/value entries with pairwise different keys
EntriesUpTo(keys, values, n) ==
    {e \in SeqsUpTo([Key : keys, Value : values], n) :
        \A i, j \in DOMAIN e : i # j => e[i].Key # e[j].Key}

\* the values pyobjify is applied to: remote generic Lists, flat ones and
\* lists of lists of integers; remote generic Dictionaries; remote arrays of
\* every kind of element type; remote SortedDictionaries, handles, dynamic
\* records, other remote values, and host values
GRemote ==
    {NetList(t) : t \in SeqsUpTo({Boxed("Int32", 1), Boxed("Int32", 2),
                                  Boxed("Double", 1), ScriptObject(1)}, MaxElems)}
    \cup {NetList(t) :
            t \in SeqsUpTo({NetList(u) : u \in SeqsUpTo({Boxed("Int32", 1),
                                                        Boxed("Int32", 2)}, 2)}, 2)}
    \cup {[tag |-> "Dictionary", keyType |-> "Object", entries |-> e] :
        e \in EntriesUpTo({Boxed("Int32", 1), Boxed("Double", 1),
                           PyStr(<<"a">>), ScriptObject(1)},
                          {Boxed("Int32", 7), NetList(<<Boxed("Int32", 1)>>)},
                          MaxElems)}
    \cup {ObjectArray("Int32[]", t) :
        t \in SeqsUpTo({NetArray("Int32", <<1>>), NetArray("Int32", <<2>>)}, 2)}
    \cup {ObjectArray("String", t) :
            t \in SeqsUpTo({PyStr(<<"a">>), PyStr(<<"b">>)},
                           MaxElems)}
    \cup {ObjectArray("CPythonScriptObject", t) :
            t \in SeqsUpTo({ScriptObject(1), ScriptObject(2)}, MaxElems)}
    \cup {ObjectArray("Object", t) :
            t \in SeqsUpTo({ScriptObject(1), Boxed("Int32", 1)}, 2)}
    \cup {NetArray(t, <<n>>) :
            t \in NetNumTypes \cup {"Char", "Decimal", "ValueType"},
            n \in 0..MaxElems}
    \cup (SdData \ {NoValue})
    \cup {ScriptObject(1), ScriptObject(2), ScriptCollection(1),
          ScriptCollection(2), ScriptMethod(1),
          [tag |-> "ExpandoObject", entries |-> <<>>],
          [tag |-> "ExpandoObject",
           entries |-> <<[Key |-> PyStr(<<"a">>),
                          Value |-> Boxed("Int32", 1)]>>],
          [tag |-> "DateTime", n |-> 1], Boxed("Decimal", 1),
          NoValue, PyInt(1), PyStr(<<"a">>), PyList(<<>>),
          PyList(<<ScriptObject(1), PyInt(1)>>),
          PyList(<<PyList(<<ScriptCollection(1)>>)>>)}

\* the values clrify is applied to
GHost ==
    UNION {{[tag |-> "sorted_dict", key_type |-> kt, entries |-> e] :
              e \in EntriesUpTo({ChangeType(PyInt(1), kt), ChangeType(PyInt(2), kt),
                                 ChangeType(PyInt(3), kt)},
                                {PyInt(7), PyScriptObject(ScriptObject(1))},
                                MaxElems)} : kt \in {"Double", "Int32"}}
    \cup {PyScriptObject(ScriptObject(i)) : i \in 1..2}
    \cup {PyScriptObjectCollection(ScriptCollection(i)) : i \in 1..2}
    \cup {HostDict(e) :
            e \in EntriesUpTo({PyInt(1), PyStr(<<"a">>)},
                              {PyInt(7), PyScriptObject(ScriptObject(1))}, 2)}
    \cup {[tag |-> kind, items |-> t] :
            kind \in {"list", "array_list"},
            t \in SeqsUpTo({PyInt(1), PyInt(2), PyStr(<<"a">>),
                            PyScriptObject(ScriptObject(1)),
                            PyScriptObjectCollection(ScriptCollection(1)),
                            PyList(<<PyScriptObject(ScriptObject(2))>>)},
                           MaxElems)}
    \cup {[tag |-> kind, items |-> <<PyInt(1), e>>] :
            kind \in {"list", "array_list"},
            e \in {NpScalar("int32"), NdArray("int32", <<1>>, "C")}}
    \cup {PyInt(1), PyStr(<<"a">>), NoValue, NpScalar("int32")}

\* y = pyobjify(x) on a value that came from the remote side
GPyobjify ==
    /\ \E x \in GRemote :
          g' = [op |-> "pyobjify", in |-> x, out |-> pyobjify(x), back |-> NoValue]
    /\ UNCHANGED <<sd, ex, numVars, proxyVars, methVars, appVars, iterVars>>

\* y = clrify(x) on a host value
GClrify ==
    /\ \E x \in GHost :
          g' = [op |-> "clrify", in |-> x, out |-> clrify(x), back |-> NoValue]
    /\ UNCHANGED <<sd, ex, numVars, proxyVars, methVars, appVars, iterVars>>

\* the result is sent back through the opposite conversion
GBack ==
    /\ g # NoValue /\ g.back = NoValue /\ ~IsRaise(g.out)
    /\ g' = [g EXCEPT !.back = IF g.op = "clrify" THEN pyobjify(g.out)
                                ELSE clrify(g.out)]
    /\ UNCHANGED <<sd, ex, numVars, proxyVars, methVars, appVars, iterVars>>

\* y = array_list(), y = array_list(l) or y = array_list(l, p) in a script,
\* on nothing, on a remote array of references or on a host list
GArrayList ==
    /\ \E l \in {x \in GRemote : x.tag \in {"Array", "list"}
                                   /\ "items" \in DOMAIN x} \cup {NoValue},
          p \in BOOLEAN :
          g' = [op |-> "array_list", in |-> [tag |-> "args", l |-> l, p |-> p],
                out |-> array_list(l, p), back |-> NoValue]
    /\ UNCHANGED <<sd, ex, numVars, proxyVars, methVars, appVars, iterVars>>

NormNext == GPyobjify \/ GClrify \/ GBack \/ GArrayList

\* ------------------------------------------------------ ExpandoDictionary

\* d = pyobjify(x) for a remote ExpandoObject x: ExpandoDictionary.__init__,
\* lines 186-192, copies the members
ExpConvert ==
    /\ ex = NoValue
    /\ \E e \in EntriesUpTo({PyStr(<<"a">>), PyStr(<<"b">>)},
                            {Boxed("Int32", 1), ScriptObject(1)}, MaxElems) :
          ex' = [remote |-> e, snap |-> e,
                 host |-> pyobjify([tag |-> "ExpandoObject", entries |-> e]).entries,
                 calls |-> 0, hn |-> 0, rn |-> 0]
    /\ UNCHANGED <<sd, g, numVars, proxyVars, methVars, appVars, iterVars>>

\* an assignment that also writes the member of the ExpandoObject
ExpSetWriteBack ==
    /\ ex # NoValue /\ ex.hn < MaxExOps
    /\ \E key \in {PyStr(<<"a">>), PyStr(<<"c">>)}, value \in {PyInt(1), PyInt(2)} :
          ex' = [ex EXCEPT !.host = DictSet(@, key, value),
                           !.remote = DictSet(@, key, value),
                           !.calls = @ + 1, !.hn = @ + 1]
    /\ UNCHANGED <<sd, g, numVars, proxyVars, methVars, appVars, iterVars>>

\* d[key] = value, and d.key = value, which __setattr__, lines 198-200,
\* turns into d[key] = value
ExpSet ==
    /\ ex # NoValue /\ ex.hn < MaxExOps
    /\ \E key \in {PyStr(<<"a">>), PyStr(<<"c">>)}, value \in {PyInt(1), PyInt(2)} :
          ex' = [ex EXCEPT !.host = DictSet(@, key, value), !.hn = @ + 1]
    /\ UNCHANGED <<sd, g, numVars, proxyVars, methVars, appVars, iterVars>>

\* del d[key] for a key of the mapping
ExpDel ==
    /\ ex # NoValue /\ ex.hn < MaxExOps
    /\ \E p \in DOMAIN ex.host :
          ex' = [ex EXCEPT !.host = [i \in 1..(Len(@) - 1) |->
                                       IF i < p THEN @[i] ELSE @[i + 1]],
                           !.hn = @ + 1]
    /\ UNCHANGED <<sd, g, numVars, proxyVars, methVars, appVars, iterVars>>

\* the remote runtime sets a member of the ExpandoObject
ExpRemoteSet ==
    /\ ex # NoValue /\ ex.rn < MaxExOps
    /\ \E key \in {PyStr(<<"a">>), PyStr(<<"d">>)},
          value \in {Boxed("Int32", 3), ScriptObject(2)} :
          ex' = [ex EXCEPT !.remote = DictSet(@, key, value), !.rn = @ + 1]
    /\ UNCHANGED <<sd, g, numVars, proxyVars, methVars, appVars, iterVars>>

ExpNext == ExpConvert \/ ExpSet \/ ExpDel \/ ExpRemoteSet

\* ------------------------------------------------------- ScriptObjectHelp

\* a replacement that does not look at the flag
replace_helpAlways(h) ==
    [h EXCEPT !.help = [tag |-> "ScriptObjectHelp", builtin_help |-> h.help],
              !.help_replaced = TRUE]

\* ScriptObjectHelp.replace_help(), lines 410-419, on the pair of
\* builtins.help and the class attribute help_replaced; the wrapper's
\* __init__, lines 380-385, stores the help that is current at that moment
replace_help(h) ==
    IF ~h.help_replaced
    THEN [h EXCEPT !.help = [tag |-> "ScriptObjectHelp", builtin_help |-> h.help],
                   !.help_replaced = TRUE]
    ELSE h

\* help(arg) with the help that is installed: the built-in help documents the
\* wrapper class of a proxy; the wrapper's __call__, lines 390-405, shows the
\* remote documentation of a proxy and hands everything else to the help it
\* stored.  The result names the documentation shown and the number of
\* wrappers passed.
RECURSIVE CallHelp(_, _)
CallHelp(help, arg) ==
    IF help.tag = "builtin_help"
    THEN [shown |-> IF arg = NoValue THEN "interactive" ELSE "builtin", depth |-> 0]
    ELSE IF arg # NoValue /\ arg.tag \in {"PyScriptObject", "PyScriptMethod"}
    THEN [shown |-> "remote", depth |-> 1]
    ELSE IF arg # NoValue /\ arg.tag = "PyScriptObjectCollection"
    THEN [shown |-> "collection", depth |-> 1]
    ELSE LET r == CallHelp(help.builtin_help, arg)
         IN  [shown |-> r.shown, depth |-> r.depth + 1]

\* connect(), line 51, or a script calls ScriptObjectHelp.replace_help()
HpReplace ==
    /\ Len(hp.log) < MaxHelpOps
    /\ hp' = [replace_help(hp) EXCEPT
                 !.log = Append(@, [op |-> "replace_help", arg |-> NoValue,
                                    out |-> NoValue])]
    /\ UNCHANGED <<numVars, proxyVars, methVars, iterVars, normVars, scp, th>>

\* a script calls help() or help(arg)
HpCall ==
    /\ Len(hp.log) < MaxHelpOps
    /\ \E arg \in {NoValue, PyInt(1), PyScriptObject(ScriptObject(1)),
                    PyScriptObjectCollection(ScriptCollection(1)),
                    PyScriptMethod(ScriptMethod(1))} :
          hp' = [hp EXCEPT !.log = Append(@, [op |-> "help", arg |-> arg,
                                              out |-> CallHelp(hp.help, arg)])]
    /\ UNCHANGED <<numVars, proxyVars, methVars, iterVars, normVars, scp, th>>

HelpNext == HpReplace \/ HpCall

\* --------------------------------------------------------------- DicomSCP

\* DicomSCP.__post_init__, lines 36-64, on the fields the dataclass __init__
\* stored: f.Title, f.Node, f.Port, f.CalledAE, f.CallingAE are None or a
\* string, f.allowed is _allowed_titles; db is what the query of the clinic
\* database gives, the titles or a failure.  "not x", "all" and "any" go by
\* truth value: None and the empty string are false.
DicomSCPPostInit(f, db) ==
    LET IsTrue(v) == v # NoValue /\ v # PyStr(<<>>)
        four == {f.Node, f.Port, f.CalledAE, f.CallingAE}
        allowed == IF f.allowed # <<>> THEN f.allowed
                   ELSE IF ~db.ok THEN <<>>
                   ELSE db.titles
    IN  IF ~IsTrue(f.Title) /\ ~(\A v \in four : IsTrue(v))
        THEN Raise("ValueError", <<"Either Title or all of">>)
        ELSE IF IsTrue(f.Title) /\ (\E v \in four : IsTrue(v))
        THEN Raise("ValueError", <<"Both Title and">>)
        ELSE IF IsTrue(f.Title) /\ ~(\E i \in DOMAIN allowed : allowed[i] = f.Title)
        THEN Raise("ValueError", <<"Title does not exist">>)
        ELSE [tag |-> "DicomSCP", Title |-> f.Title, Node |-> f.Node,
              Port |-> f.Port, CalledAE |-> f.CalledAE, CallingAE |-> f.CallingAE,
              allowed |-> IF IsTrue(f.Title) THEN allowed ELSE f.allowed]

\* DicomSCP.get_dicomscp_dict, lines 31-34: the fields, in the order of their
\* declaration, whose value is not None, without _allowed_titles
get_dicomscp_dict(self) ==
    LET item(k, v) == IF v = NoValue THEN <<>> ELSE <<[Key |-> k, Value |-> v]>>
    IN  HostDict(item("Title", self.Title) \o item("Node", self.Node)
                 \o item("Port", self.Port) \o item("CalledAE", self.CalledAE)
                 \o item("CallingAE", self.CallingAE))

\* DicomSCP(Title=..., Node=..., Port=..., CalledAE=..., CallingAE=...,
\* _allowed_titles=...): every field is left out (None), the empty string or
\* a name
ScpConstruct ==
    /\ \E f \in [Title : {NoValue, PyStr(<<>>), PyStr(<<"T">>), PyStr(<<"U">>)},
                  Node : {NoValue, PyStr(<<>>), PyStr(<<"n">>)},
                  Port : {NoValue, PyStr(<<>>), PyStr(<<"p">>)},
                  CalledAE : {NoValue, PyStr(<<>>), PyStr(<<"c">>)},
                  CallingAE : {NoValue, PyStr(<<>>), PyStr(<<"g">>)},
                  allowed : {<<>>, <<PyStr(<<"T">>)>>}],
          db \in {[ok |-> FALSE, titles |-> <<>>],
                  [ok |-> TRUE, titles |-> <<PyStr(<<"T">>)>>],
                  [ok |-> TRUE, titles |-> <<PyStr(<<"U">>), PyStr(<<"V">>)>>]} :
          scp' = [args |-> f, db |-> db, out |-> DicomSCPPostInit(f, db),
                  dict |-> NoValue]
    /\ UNCHANGED <<numVars, proxyVars, methVars, iterVars, normVars, hp, th>>

\* get_dicomscp_dict() on the instance that was constructed
ScpGetDict ==
    /\ scp # NoValue /\ ~IsRaise(scp.out) /\ scp.dict = NoValue
    /\ scp' = [scp EXCEPT !.dict = get_dicomscp_dict(scp.out)]
    /\ UNCHANGED <<numVars, proxyVars, methVars, iterVars, normVars, hp, th>>

ScpNext == ScpConstruct \/ ScpGetDict

\* ------------------------------------------- the threaded export window

\* DCMExportDestination.export, lines 366-393, by what happens inside it:
\* nothing to export; the export succeeds; it raises InvalidOperationException
\* and the retry with IgnorePreConditionWarnings succeeds or raises; it raises
\* another exception; set_export_arguments raises.  The handlers of one try
\* statement do not catch what another handler of it raises.
DestinationExport(d, outcome) ==
    IF outcome = "arguments_raise" THEN Raise("ValueError", <<"No examination provided">>)
    ELSE IF outcome = "nothing_set"
    THEN [tag |-> "return", status |-> "SKIPPED", log |-> [dest |-> d, text |-> "SKIPPED"]]
    ELSE IF outcome \in {"exported", "warning_then_exported"}
    THEN [tag |-> "return", status |-> "COMPLETE", log |-> [dest |-> d, text |-> "COMPLETE"]]
    ELSE IF outcome = "warning_then_raise"
    THEN Raise("InvalidOperationException", <<"retry failed">>)
    ELSE [tag |-> "return", status |-> "Error", log |-> [dest |-> d, text |-> "Error"]]

\* MyWindow._export_thread, lines 729-736, run by thread d: the item it puts
\* on the results queue, or None when it ends without putting one.  The
\* handler calls self.generate_gui_message on the window; RayWindow.__getattr__
\* (ray_window.py lines 25-34) raises AttributeError for a name neither the
\* window class nor the WPF window has, and only DCMExportDestination defines
\* generate_gui_message.
ExportThread(d, outcome) ==
    LET r == DestinationExport(d, outcome)
        WindowAttributes == {"_submit_threading", "_export_thread", "log_message",
                             "dcm_destinations", "submit"}
    IN  IF ~IsRaise(r) THEN [task |-> d, status |-> r.status, log |-> r.log]
        ELSE IF "generate_gui_message" \notin WindowAttributes THEN NoValue
        ELSE NoValue    \* log_message += error: str + exception, TypeError

\* _submit_threading, lines 698-711: one turn of the for loop creates the
\* thread of the next destination, enters it in tasks, sets the status field
\* and starts it; after the last turn the polling loop begins
ThStart ==
    /\ th.main \in {"idle", "starting"} /\ th.next <= NumDest
    /\ th' = [th EXCEPT !.tasks = @ \cup {th.next},
                        !.status[th.next] = "Exporting...",
                        !.thread[th.next] = "started",
                        !.next = @ + 1,
                        !.main = IF th.next = NumDest THEN "polling" ELSE "starting"]
    /\ UNCHANGED <<numVars, proxyVars, methVars, iterVars, normVars, hp, scp>>

\* thread d runs _export_thread to its end
ThRun(d) ==
    /\ th.thread[d] = "started"
    /\ \E outcome \in {"nothing_set", "exported", "warning_then_exported",
                        "warning_then_raise", "other_error", "arguments_raise"} :
          LET item == ExportThread(d, outcome)
          IN  th' = [th EXCEPT !.exported[d] = outcome,
                               !.thread[d] = IF item = NoValue THEN "died"
                                             ELSE "finished",
                               !.queue = IF item = NoValue THEN @
                                         ELSE Append(@, item)]
    /\ UNCHANGED <<numVars, proxyVars, methVars, iterVars, normVars, hp, scp>>

\* one turn of the polling loop, lines 713-727: the loop ends when tasks is
\* empty; otherwise get_nowait takes a result, whose status goes to the
\* status field of the destination tasks holds for the thread, and the task
\* is deleted; on queue.Empty nothing happens but the sleep
ThPoll ==
    /\ th.main = "polling"
    /\ th' = IF th.tasks = {} THEN [th EXCEPT !.main = "done"]
             ELSE IF th.queue = <<>> THEN th
             ELSE LET result == Head(th.queue)
                  IN  [th EXCEPT !.queue = Tail(@),
                                 !.status[result.task] = result.status,
                                 !.log = Append(@, result.log),
                                 !.tasks = @ \ {result.task}]
    /\ UNCHANGED <<numVars, proxyVars, methVars, iterVars, normVars, hp, scp>>

ThNext == ThStart \/ (\E d \in 1..NumDest : ThRun(d)) \/ ThPoll

\* --------------------------------------------------------- specifications

\* Initially no converter is running, the proxy object has just been
\* constructed (__init__ stores the handle, line 456), no method has been
\* called and no iterator exists.  Each specification lets the state of its
\* own component vary and keeps the others at rest.

\* the numeric converters
InitNum ==
    /\ nOp = "idle" /\ nPc = "idle"
    /\ nSrc = NoValue /\ nDst = NoValue /\ nType = "none"
    /\ nPending = "none" /\ nErr = NoErr /\ nPin = NoPin /\ nTrip = NoTrip
    /\ unsupKinds = {}
    /\ oDict = [n \in {HandleName} |-> ScriptObject(1)]
    /\ oRemote = [n \in {MemberName} |-> PyInt(5)]
    /\ oCalls = <<>> /\ oHost = <<>> /\ oResult = NoOutcome
    /\ mCall = NoValue /\ mConverted = <<>> /\ mInvokes = <<>>
    /\ mResult = NoOutcome
    /\ cItems = <<>> /\ cMuts = 0 /\ iters = <<>> /\ cSeen = NoValue
    /\ sd = NoValue /\ ex = NoValue /\ g = NoValue
    /\ hp = [help |-> [tag |-> "builtin_help"], help_replaced |-> FALSE,
             log |-> <<>>]
    /\ scp = NoValue
    /\ th = [main |-> "idle", next |-> 1, tasks |-> {}, queue |-> <<>>,
             thread |-> [d \in 1..NumDest |-> "none"],
             exported |-> [d \in 1..NumDest |-> "none"],
             status |-> [d \in 1..NumDest |-> ""], log |-> <<>>]

SpecNum == InitNum /\ [][NumNext]_vars

\* attribute access on a PyScriptObject whose remote member holds a
\* primitive or an object handle
InitProxy ==
    /\ nOp = "idle" /\ nPc = "idle"
    /\ nSrc = NoValue /\ nDst = NoValue /\ nType = "none"
    /\ nPending = "none" /\ nErr = NoErr /\ nPin = NoPin /\ nTrip = NoTrip
    /\ unsupKinds = {}
    /\ oDict = [n \in {HandleName} |-> ScriptObject(1)]
    /\ \E v \in {PyInt(5), ScriptObject(3)} :
          oRemote = [n \in {MemberName} |-> v]
    /\ oCalls = <<>> /\ oHost = <<>> /\ oResult = NoOutcome
    /\ mCall = NoValue /\ mConverted = <<>> /\ mInvokes = <<>>
    /\ mResult = NoOutcome
    /\ cItems = <<>> /\ cMuts = 0 /\ iters = <<>> /\ cSeen = NoValue
    /\ sd = NoValue /\ ex = NoValue /\ g = NoValue
    /\ hp = [help |-> [tag |-> "builtin_help"], help_replaced |-> FALSE,
             log |-> <<>>]
    /\ scp = NoValue
    /\ th = [main |-> "idle", next |-> 1, tasks |-> {}, queue |-> <<>>,
             thread |-> [d \in 1..NumDest |-> "none"],
             exported |-> [d \in 1..NumDest |-> "none"],
             status |-> [d \in 1..NumDest |-> ""], log |-> <<>>]

SpecProxy == InitProxy /\ [][ProxyNext]_vars

\* calls of a PyScriptMethod
InitMethod ==
    /\ nOp = "idle" /\ nPc = "idle"
    /\ nSrc = NoValue /\ nDst = NoValue /\ nType = "none"
    /\ nPending = "none" /\ nErr = NoErr /\ nPin = NoPin /\ nTrip = NoTrip
    /\ unsupKinds = {}
    /\ oDict = [n \in {HandleName} |-> ScriptObject(1)]
    /\ oRemote = [n \in {MemberName} |-> PyInt(5)]
    /\ oCalls = <<>> /\ oHost = <<>> /\ oResult = NoOutcome
    /\ mCall = NoValue /\ mConverted = <<>> /\ mInvokes = <<>>
    /\ mResult = NoOutcome
    /\ cItems = <<>> /\ cMuts = 0 /\ iters = <<>> /\ cSeen = NoValue
    /\ sd = NoValue /\ ex = NoValue /\ g = NoValue
    /\ hp = [help |-> [tag |-> "builtin_help"], help_replaced |-> FALSE,
             log |-> <<>>]
    /\ scp = NoValue
    /\ th = [main |-> "idle", next |-> 1, tasks |-> {}, queue |-> <<>>,
             thread |-> [d \in 1..NumDest |-> "none"],
             exported |-> [d \in 1..NumDest |-> "none"],
             status |-> [d \in 1..NumDest |-> ""], log |-> <<>>]

SpecMethod == InitMethod /\ [][MethNext]_vars

\* iteration over a PyScriptObjectCollection of any length, its elements in
\* the remote runtime's order
InitIter ==
    /\ nOp = "idle" /\ nPc = "idle"
    /\ nSrc = NoValue /\ nDst = NoValue /\ nType = "none"
    /\ nPending = "none" /\ nErr = NoErr /\ nPin = NoPin /\ nTrip = NoTrip
    /\ unsupKinds = {}
    /\ oDict = [n \in {HandleName} |-> ScriptObject(1)]
    /\ oRemote = [n \in {MemberName} |-> PyInt(5)]
    /\ oCalls = <<>> /\ oHost = <<>> /\ oResult = NoOutcome
    /\ mCall = NoValue /\ mConverted = <<>> /\ mInvokes = <<>>
    /\ mResult = NoOutcome
    /\ cItems \in {[i \in 1..n |-> ScriptObject(i)] : n \in 0..MaxLen}
    /\ cMuts = 0 /\ iters = <<>> /\ cSeen = NoValue
    /\ sd = NoValue /\ ex = NoValue /\ g = NoValue
    /\ hp = [help |-> [tag |-> "builtin_help"], help_replaced |-> FALSE,
             log |-> <<>>]
    /\ scp = NoValue
    /\ th = [main |-> "idle", next |-> 1, tasks |-> {}, queue |-> <<>>,
             thread |-> [d \in 1..NumDest |-> "none"],
             exported |-> [d \in 1..NumDest |-> "none"],
             status |-> [d \in 1..NumDest |-> ""], log |-> <<>>]

SpecIter == InitIter /\ [][CollNext]_vars

\* lookups and iteration over a PyScriptObjectCollection of any length that
\* the remote runtime does not change meanwhile
SpecColl == InitIter /\ [][CollLookNext]_vars

\* construction of sorted_dicts and insertions into them
SpecSorted == InitNum /\ [][SdNext]_vars

\* values passing through pyobjify and clrify
SpecNorm == InitNum /\ [][NormNext]_vars

\* an ExpandoDictionary and the ExpandoObject it was made from
SpecExpando == InitNum /\ [][ExpNext]_vars

\* the export window after Export was clicked; the threads the window
\* starts are scheduled and run to their end, and the polling loop keeps
\* turning
SpecThread ==
    /\ InitNum /\ [][ThNext]_vars
    /\ WF_vars(ThStart) /\ WF_vars(ThPoll)
    /\ \A d \in 1..NumDest : WF_vars(ThRun(d))

\* construction of DicomSCP connections
SpecScp == InitNum /\ [][ScpNext]_vars

\* the help replacement, as connect() and scripts use it
SpecHelp == InitNum /\ [][HelpNext]_vars

\* ------------------------------------------------------------- properties

\* the extents, the element type and the elements of a buffer of either side
Extents(a) == IF a.tag = "ndarray" THEN a.shape ELSE a.lengths
ElementType(a) == IF a.tag = "ndarray" THEN a.dtype ELSE a.elementType
Indexes(shape) ==
    {idx \in [1..Len(shape) -> 0..(MaxExtent + 1)] :
        \A d \in 1..Len(shape) : idx[d] < shape[d]}
ElementAt(a, idx) ==
    LET sz  == ItemSize(ElementType(a))
        off == IF a.tag = "ndarray" /\ a.order = "F"
               THEN FOffset(a.shape, idx) ELSE COffset(Extents(a), idx)
    IN  SubSeq(a.mem, off * sz + 1, off * sz + sz)
SameBuffer(a, b) ==
    /\ a.tag = b.tag
    /\ ElementType(a) = ElementType(b)
    /\ Extents(a) = Extents(b)
    /\ \A idx \in Indexes(Extents(a)) : ElementAt(a, idx) = ElementAt(b, idx)

\* the element-type table: numpy kind -> .NET type
TypeTable ==
    [k \in NumKinds |->
        CASE k = "bool" -> "Boolean"
          [] k = "int8" -> "SByte"    [] k = "uint8" -> "Byte"
          [] k = "int16" -> "Int16"   [] k = "uint16" -> "UInt16"
          [] k = "int32" -> "Int32"   [] k = "uint32" -> "UInt32"
          [] k = "int64" -> "Int64"   [] k = "uint64" -> "UInt64"
          [] k = "float32" -> "Single" [] k = "float64" -> "Double"]

\* the first input of the current call chain has a type of the table
Supported(v) ==
    \/ v.tag = "ndarray" /\ v.dtype \in NumKinds
    \/ v.tag = "Array" /\ v.elementType \in NetNumTypes
    \/ v.tag = "npscalar" /\ v.type \in NumKinds \cup {"pybool"}

\* C1: a buffer of a supported kind, of rank 1..MaxRank and extents
\* 0..MaxExtent, that went through arrayify and then numpyify (or a remote
\* array through numpyify and then arrayify) comes back with the same rank,
\* extents, element type and elements; and on the way neither converter
\* rejects its type.
C1_RoundTrip ==
    /\ (nPc = "returned" /\ nTrip.stage = 2) => SameBuffer(nTrip.first, nDst)
    /\ (nPc = "raised" /\ nErr.kind = "TypeError")
          => (nTrip.stage = 1 /\ ~Supported(nTrip.first))

\* C1 witness: a Fortran-ordered int16 buffer of shape 2x2x2 has made the
\* round trip
C1_Witness ==
    /\ nPc = "returned" /\ nTrip.stage = 2
    /\ nTrip.first.tag = "ndarray" /\ nTrip.first.order = "F"
    /\ nTrip.first.dtype = "int16" /\ nTrip.first.shape = <<2, 2, 2>>

\* C2: in numpyify and arrayify a pin is acquired at most once and never
\* retried, is released exactly once when it was acquired, also when the copy
\* raised; a failed acquisition and the unsupported-type error release
\* nothing; no pin is held once the converter has returned or raised.
C2_PinReleased ==
    /\ nPin.attempts <= 1
    /\ nPin.acquired <= nPin.attempts
    /\ nPin.released <= nPin.acquired
    /\ nPin.held = nPin.acquired - nPin.released
    /\ nPc = "copy" => nPin.held = 1
    /\ nPc \in {"returned", "raised", "idle"} => nPin.held = 0
    /\ (nPc = "returned" /\ nOp \in {"numpyify", "arrayify"})
          => (nPin.acquired = 1 /\ nPin.released = 1)
    /\ (nPc = "raised" /\ nErr.kind = "ArgumentError")
          => (nPin.acquired = 1 /\ nPin.released = 1)
    /\ (nPc = "raised" /\ nErr.kind = "ArgumentException")
          => (nPin.attempts = 1 /\ nPin.acquired = 0 /\ nPin.released = 0)
    /\ (nPc = "raised" /\ nErr.kind \in {"TypeError", "Exception"})
          => nPin.attempts = 0

\* C2 witness: the byte copy of arrayify raised, and the pin was released
C2_Witness ==
    /\ nOp = "arrayify" /\ nPc = "raised" /\ nErr.kind = "ArgumentError"
    /\ nPin.released = 1 /\ nPin.held = 0

\* C3: every error raised for a value of an unsupported type, by numpyify,
\* arrayify or systemify, is of one and the same kind, its message names the
\* offending type, and no converted value is returned.
C3_OneErrorKind ==
    /\ Cardinality(unsupKinds) <= 1
    /\ (nPc = "raised" /\ nErr.kind \in {"TypeError", "Exception"})
          => (nErr.msg[2] = TypeNameOf(nSrc) /\ nDst = NoValue)

\* C4: the three converters use one table: arrayify looks up TypeTable[k] for
\* dtype k, numpyify maps the element type TypeTable[k] back to k, systemify
\* boxes a scalar of kind k as TypeTable[k], and a boolean scalar (numpy or
\* builtin) as Boolean.
C4_OneTable ==
    /\ (nOp = "arrayify" /\ nPc \notin {"dispatch", "raised"})
          => (nSrc.dtype \in NumKinds /\ nType = TypeTable[nSrc.dtype])
    /\ (nOp = "numpyify" /\ nPc \notin {"dispatch", "raised"}
                         /\ nSrc.elementType \in NetNumTypes)
          => (nType \in NumKinds /\ TypeTable[nType] = nSrc.elementType)
    /\ (nOp = "systemify" /\ nPc = "returned")
          => /\ nDst.tag = "Boxed"
             /\ nSrc.type \in NumKinds => nDst.type = TypeTable[nSrc.type]
             /\ nSrc.type \in {"bool", "pybool"} => nDst.type = "Boolean"
    /\ (nOp \in {"arrayify", "numpyify", "systemify"} /\ Supported(nSrc)
           /\ nPc = "raised") => nErr.kind \notin {"TypeError", "Exception"}

\* C4 witness: systemify has boxed a builtin bool, and did so as Boolean
C4_Witness ==
    /\ nOp = "systemify" /\ nPc = "returned"
    /\ nSrc.type = "pybool" /\ nDst.type = "Boolean"

\* the last host operation on the proxy object and the last remote call
LastOp == oHost[Len(oHost)]
LastCall == oCalls[Len(oCalls)]

\* C5: when a read of a non-reserved attribute reaches the remote member-get
\* and that raises an error whose message starts with "Object has no member",
\* the read raises AttributeError and hasattr returns False; any other remote
\* error is passed on with its message; a value is returned through pyobjify.
C5_NotFoundTranslated ==
    (/\ oHost # <<>>
     /\ LastOp.op \in {"get", "hasattr"}
     /\ ~StartsWith(LastOp.name, <<"_">>)
     /\ LastOp.calls = 1)
    => LET a == LastCall.answer IN
         /\ LastCall.op = "GetMember" /\ LastCall.name = LastOp.name
         /\ (~a.ok /\ StartsWith(a.msg, NoMemberPrefix))
               => IF LastOp.op = "get"
                  THEN oResult = Outcome("AttributeError", NoValue, a.msg)
                  ELSE oResult = Outcome("bool", [tag |-> "bool", b |-> FALSE], <<>>)
         /\ (~a.ok /\ ~StartsWith(a.msg, NoMemberPrefix))
               => oResult = Outcome("RemoteError", NoValue, a.msg)
         /\ a.ok
               => IF LastOp.op = "get"
                  THEN oResult = Outcome("value", pyobjify(a.value), <<>>)
                  ELSE oResult = Outcome("bool", [tag |-> "bool", b |-> TRUE], <<>>)

\* C5 witness: hasattr(proxy, "Foo") returned False after the remote
\* runtime answered "Object has no member: Foo"
C5_Witness ==
    /\ oHost # <<>>
    /\ LastOp.op = "hasattr" /\ LastOp.name = MissingName /\ LastOp.calls = 1
    /\ LastCall.answer.msg = NoMemberMsg(MissingName)
    /\ oResult.kind = "bool" /\ oResult.value.b = FALSE

\* C6: a call with a positional argument raises the usage error (TypeError),
\* with or without keyword arguments, before any value is passed to clrify
\* and before any remote Invoke.
C6_PositionalRejected ==
    (mCall # NoValue /\ mCall.args # <<>>)
    => /\ mResult.kind = "TypeError"
       /\ mConverted = <<>>
       /\ mInvokes = <<>>

\* C6 witness: a call with a positional and two keyword arguments was rejected
C6_Witness ==
    /\ mCall # NoValue
    /\ Len(mCall.args) = 1 /\ Len(mCall.kwargs) = 2
    /\ mResult.kind = "TypeError"

\* every keyword value of the last call is one clrify converts
AllConvertible ==
    \A i \in DOMAIN mCall.kwargs : ~IsRaise(clrify(mCall.kwargs[i].value))

C8_ReservedNamesLocal ==
    /\ \A i \in DOMAIN oHost :
          StartsWith(oHost[i].name, <<"_">>) => oHost[i].calls = 0
    /\ (oHost # <<>> /\ LastOp.op = "get" /\ StartsWith(LastOp.name, <<"_">>)
                     /\ LastOp.name \notin DOMAIN oDict)
          => oResult.kind = "AttributeError"

\* the host operations that C9 expects to be forwarded: every read or write
\* of a non-reserved name (a write only when clrify converts its value)
IsForwardedOp(h) ==
    /\ ~StartsWith(h.name, <<"_">>)
    /\ h.op = "set" => ~IsRaise(clrify(h.value))

\* the same without the reads of names the proxy class itself defines
IsForwardedMemberOp(h) ==
    /\ IsForwardedOp(h)
    /\ ~(h.op \in {"get", "hasattr"} /\ h.name \in ClassAttributes)

\* the remote calls for non-reserved names
IsMemberCall(c) == ~StartsWith(c.name, <<"_">>)

\* the remote calls equal, one by one and in order, the host operations ops
InProgramOrder(ops, calls) ==
    /\ Len(calls) = Len(ops)
    /\ \A i \in DOMAIN ops :
          /\ calls[i].name = ops[i].name
          /\ ops[i].calls = 1
          /\ IF ops[i].op = "set"
             THEN calls[i].op = "SetMember" /\ calls[i].value = clrify(ops[i].value)
             ELSE calls[i].op = "GetMember"

\* the host keeps nothing but '_' fields, and the last read of a forwarded
\* name returned what the remote runtime answered to it
NothingCached ==
    /\ \A n \in DOMAIN oDict : StartsWith(n, <<"_">>)
    /\ (oHost # <<>> /\ LastOp.op = "get" /\ LastOp.calls = 1 /\ LastCall.answer.ok)
          => oResult = Outcome("value", pyobjify(LastCall.answer.value), <<>>)

C10_IterationComplete ==
    \A k \in DOMAIN iters :
        LET it == iters[k] IN
          ~it.mutated =>
            /\ Len(it.yielded) <= Len(cItems)
            /\ it.index = Len(it.yielded)
            /\ \A j \in DOMAIN it.yielded :
                  /\ it.yielded[j].index = j - 1
                  /\ it.yielded[j].value = PyScriptObject(cItems[j])
            /\ it.stops > 0 => Len(it.yielded) = Len(cItems)

\* C10 witness: an iterator over three unchanged elements has yielded all
\* three and signalled the end twice
C10_Witness ==
    \E k \in DOMAIN iters :
        /\ ~iters[k].mutated /\ Len(cItems) = 3
        /\ Len(iters[k].yielded) = 3 /\ iters[k].stops = 2

\* C11: on a collection of length n, len(collection) is the remote Count n;
\* collection[i] and collection[key] return the element at that index or
\* under that key through pyobjify, a remote object handle as a
\* PyScriptObject; and the i-th item an iterator yields is collection[i].
C11_ItemsNormalized ==
    /\ (cSeen # NoValue /\ cSeen.op = "len")
          => cSeen.out.value = PyInt(Len(cItems))
    /\ (cSeen # NoValue /\ cSeen.op = "getitem" /\ cSeen.out.kind = "value")
          => /\ cSeen.out.value.tag = "PyScriptObject"
             /\ cSeen.key.tag = "int"
                   => cSeen.out.value.handle = cItems[cSeen.key.n + 1]
             /\ cSeen.key.tag = "str"
                   => KeyOfElement(cSeen.out.value.handle) = cSeen.key
    /\ \A k \in DOMAIN iters : \A j \in DOMAIN iters[k].yielded :
          /\ iters[k].yielded[j].value.tag = "PyScriptObject"
          /\ iters[k].yielded[j].value.handle = cItems[j]
          /\ (cSeen # NoValue /\ cSeen.op = "getitem"
                /\ cSeen.key = PyInt(j - 1))
                => cSeen.out.value = iters[k].yielded[j].value

\* C11 witness: an iterator has yielded three items and collection[2] was
\* looked up and is the third of them
C11_Witness ==
    /\ Len(cItems) = 3
    /\ \E k \in DOMAIN iters : Len(iters[k].yielded) = 3
    /\ cSeen # NoValue /\ cSeen.op = "getitem" /\ cSeen.key = PyInt(2)
    /\ cSeen.out = Outcome("value", PyScriptObject(ScriptObject(3)), <<>>)

\* C12: every iter(collection) adds an iterator at index 0 that has yielded
\* nothing and leaves the iterators that exist as they are, and a step that
\* moves one iterator moves no other.
C12_Restartable ==
    [][/\ Len(iters') >= Len(iters)
       /\ Len(iters') > Len(iters)
             => /\ iters'[Len(iters')].index = 0
                /\ iters'[Len(iters')].yielded = <<>>
                /\ iters'[Len(iters')].stops = 0
                /\ \A k \in DOMAIN iters : iters'[k] = iters[k]
       /\ \A k, l \in DOMAIN iters :
             (k # l /\ (iters'[k].index # iters[k].index
                          \/ iters'[k].stops # iters[k].stops))
                => /\ iters'[l].index = iters[l].index
                   /\ iters'[l].yielded = iters[l].yielded
                   /\ iters'[l].stops = iters[l].stops]_vars

\* C12 witness: the first iterator is exhausted after three items and the
\* second one, created after that, has yielded exactly the first item
C12_Witness ==
    /\ Len(cItems) = 3 /\ Len(iters) = 2
    /\ iters[1].stops > 0 /\ Len(iters[1].yielded) = 3
    /\ iters[2].index = 1
    /\ iters[2].yielded = <<[index |-> 0, value |-> PyScriptObject(ScriptObject(1))]>>

\* C13: every key stored in a sorted_dict is a value of its key_type: the
\* key is what the coercion to key_type makes of it.
C13_KeysCoerced ==
    (sd # NoValue /\ sd.made)
       => \A i \in DOMAIN sd.entries :
             /\ ~IsRaise(ChangeType(sd.entries[i].Key, sd.key_type))
             /\ ChangeType(sd.entries[i].Key, sd.key_type) = sd.entries[i].Key

\* C14: a construction with a key_type and a d that is not None raises
\* ValueError and leaves no key type and no entries, and a construction
\* succeeds only when exactly one of the two is given.
C14_InitExclusive ==
    sd # NoValue
       => /\ (sd.kt # "None" /\ sd.d # NoValue)
                => /\ sd.ctor = "ValueError" /\ ~sd.made
                   /\ sd.key_type = "None" /\ sd.entries = <<>>
          /\ sd.made => ((sd.kt # "None") # (sd.d # NoValue))

\* C15: clrify of a sorted_dict is a remote SortedDictionary keyed by the
\* sorted_dict's key_type whose entries are the clrify'd entries, and
\* pyobjify of that map has the key_type and the entries of the sorted_dict.
C15_SortedRoundTrip ==
    (g # NoValue /\ g.op = "clrify" /\ g.in.tag = "sorted_dict")
       => /\ g.out.tag = "SortedDictionary"
          /\ g.out.keyType = g.in.key_type
          /\ g.out.entries = [i \in DOMAIN g.in.entries |->
                                [Key |-> clrify(g.in.entries[i].Key),
                                 Value |-> clrify(g.in.entries[i].Value)]]
          /\ g.back # NoValue
                => /\ g.back.tag = "sorted_dict"
                   /\ g.back.key_type = g.in.key_type
                   /\ g.back.entries = g.in.entries

\* C16: the result of pyobjify is decided by the first rule that matches, in
\* this order: host list, elementwise; a value that is no remote value,
\* unchanged; object handle, PyScriptObject; collection handle,
\* PyScriptObjectCollection; array, the array rules; method handle,
\* PyScriptMethod; dynamic record, host mapping; generic List, host list;
\* generic Dictionary, host mapping; generic SortedDictionary, sorted_dict;
\* any other remote value, unchanged and without error.
C16_FirstRuleDecides ==
    (g # NoValue /\ g.op = "pyobjify")
       => LET x == g.in
              y == g.out
          IN  IF x.tag \in {"list", "array_list"}
              THEN /\ y.tag = "list" /\ Len(y.items) = Len(x.items)
                   /\ \A i \in DOMAIN x.items : y.items[i] = pyobjify(x.items[i])
              ELSE IF x.tag \notin RemoteTags THEN y = x
              ELSE IF x.tag = "CPythonScriptObject" THEN y = PyScriptObject(x)
              ELSE IF x.tag = "CPythonScriptObjectCollection"
              THEN y = PyScriptObjectCollection(x)
              ELSE IF x.tag = "Array"
              THEN y.tag \in {"array_list", "list", "ndarray", "raise"}
              ELSE IF x.tag = "CPythonScriptMethod" THEN y = PyScriptMethod(x)
              ELSE IF x.tag = "ExpandoObject"
              THEN y.tag = "ExpandoDictionary" /\ Len(y.entries) = Len(x.entries)
              ELSE IF x.tag = "List"
              THEN y.tag = "list" /\ Len(y.items) = Len(x.items)
              ELSE IF x.tag = "Dictionary" THEN y.tag = "dict"
              ELSE IF x.tag = "SortedDictionary" THEN y.tag = "sorted_dict"
              ELSE y = x

\* C16 witness: a remote value of no listed kind, a DateTime, went through
\* pyobjify and came back as it was
C16_Witness ==
    /\ g # NoValue /\ g.op = "pyobjify"
    /\ g.in = [tag |-> "DateTime", n |-> 1]
    /\ g.out = g.in

\* C17: pyobjify of a remote array goes by the element type: an array of
\* arrays becomes the list of the normalized inner arrays, an array of
\* strings the list of its strings, an array of object handles the list of
\* their PyScriptObjects, each of the same length and order; every other
\* array goes to numpyify, which raises TypeError unless the element type is
\* one of the numeric kinds.
C17_ArrayByElementType ==
    (g # NoValue /\ g.op = "pyobjify" /\ g.in.tag = "Array")
       => LET x == g.in
              y == g.out
          IN  IF x.elementType \in ArrayElementTypes
              THEN /\ y.tag \in {"list", "array_list"}
                   /\ Len(y.items) = Len(x.items)
                   /\ \A i \in DOMAIN x.items : y.items[i] = pyobjify(x.items[i])
              ELSE IF x.elementType = "String"
              THEN /\ y.tag \in {"list", "array_list"}
                   /\ y.items = x.items
              ELSE IF x.elementType = "CPythonScriptObject"
              THEN /\ y.tag \in {"list", "array_list"}
                   /\ y.items = [i \in DOMAIN x.items |-> PyScriptObject(x.items[i])]
              ELSE /\ y = numpyify(x)
                   /\ x.elementType \notin NetNumTypes
                         => IsRaise(y) /\ y.kind = "TypeError"

\* no remote List, no remote Dictionary and no boxed number is left anywhere
\* in a host value
RECURSIVE Normalized(_)
Normalized(v) ==
    IF v.tag = "list" THEN \A i \in DOMAIN v.items : Normalized(v.items[i])
    ELSE IF v.tag = "dict"
    THEN \A i \in DOMAIN v.entries :
            Normalized(v.entries[i].Key) /\ Normalized(v.entries[i].Value)
    ELSE /\ v.tag \notin {"List", "Dictionary"}
         /\ v.tag = "Boxed" => v.type \notin NetNumTypes

\* C18: pyobjify of a remote generic List is a host list of the same length
\* and order whose elements are the normalized elements, at every depth;
\* pyobjify of a remote generic Dictionary is a host mapping with as many
\* entries as the Dictionary has; nothing in either result is left
\* unconverted.
C18_ListsAndDictionaries ==
    /\ (g # NoValue /\ g.op = "pyobjify" /\ g.in.tag = "List")
          => /\ g.out.tag = "list"
             /\ Len(g.out.items) = Len(g.in.items)
             /\ \A i \in DOMAIN g.in.items :
                   g.out.items[i] = pyobjify(ToPython(g.in.items[i]))
             /\ Normalized(g.out)
    /\ (g # NoValue /\ g.op = "pyobjify" /\ g.in.tag = "Dictionary")
          => /\ g.out.tag = "dict"
             /\ Len(g.out.entries) = Len(g.in.entries)
             /\ Normalized(g.out)

\* C19: the ExpandoDictionary starts as the copy of the members the
\* ExpandoObject had at conversion time; a change of the mapping issues no
\* remote call and leaves the ExpandoObject as it is, and a change of the
\* ExpandoObject leaves the mapping as it is.
C19_OneWaySnapshot ==
    /\ [](ex # NoValue
            => /\ ex.calls = 0
               /\ (ex.hn = 0)
                     => ex.host = [i \in DOMAIN ex.snap |->
                                     [Key |-> ex.snap[i].Key,
                                      Value |-> ToPython(ex.snap[i].Value)]])
    /\ [][(ex # NoValue /\ ex' # NoValue)
            => /\ ex'.host # ex.host => ex'.remote = ex.remote
               /\ ex'.hn # ex.hn => ex'.remote = ex.remote
               /\ ex'.remote # ex.remote => ex'.host = ex.host]_vars

\* C19 witness: the mapping was changed twice and the ExpandoObject was
\* changed after the conversion, and each holds a member the other lacks
C19_Witness ==
    /\ ex # NoValue /\ ex.hn = 2 /\ ex.rn > 0
    /\ \E i \in DOMAIN ex.host : ex.host[i].Key = PyStr(<<"c">>)
    /\ \A i \in DOMAIN ex.remote : ex.remote[i].Key # PyStr(<<"c">>)
    /\ \E i \in DOMAIN ex.remote : ex.remote[i].Key = PyStr(<<"d">>)
    /\ \A i \in DOMAIN ex.host : ex.host[i].Key # PyStr(<<"d">>)

\* C20: clrify of a PyScriptObject or of a PyScriptObjectCollection is the
\* handle the proxy was made with, read from the proxy's own field without a
\* remote call; so clrify(pyobjify(h)) = h for every object handle and every
\* collection handle h.
C20_ProxiesUnwrap ==
    /\ (g # NoValue /\ g.op = "clrify"
          /\ g.in.tag \in {"PyScriptObject", "PyScriptObjectCollection"})
          => g.out = g.in.handle
    /\ (g # NoValue /\ g.op = "pyobjify" /\ g.back # NoValue
          /\ g.in.tag \in {"CPythonScriptObject", "CPythonScriptObjectCollection"})
          => g.back = g.in
    /\ \A a \in GetMemberAnswers(HandleName) :
          /\ ReadAttribute(HandleName, a).calls = <<>>
          /\ ReadAttribute(HandleName, a).out.value = oDict[HandleName]

\* C20 witness: a collection handle went through pyobjify and the proxy went
\* back through clrify
C20_Witness ==
    /\ g # NoValue /\ g.op = "pyobjify"
    /\ g.in = ScriptCollection(2)
    /\ g.out = PyScriptObjectCollection(ScriptCollection(2))
    /\ g.back = ScriptCollection(2)

\* C21: for an array_list whose elements are all primitive host values,
\* clrify gives the remote array of object type whose elements are, one by
\* one and in order, the clrify of the elements: going through the fast path
\* (empty list, or the first element converts to itself) gives what
\* converting every element gives.
C21_FastPathEquivalent ==
    (g # NoValue /\ g.op = "clrify" /\ g.in.tag = "array_list"
       /\ \A i \in DOMAIN g.in.items : g.in.items[i].tag \in {"int", "str"})
       => /\ g.out.tag = "Array" /\ g.out.elementType = "Object"
          /\ g.out.lengths = <<Len(g.in.items)>>
          /\ g.out.items = [i \in DOMAIN g.in.items |-> clrify(g.in.items[i])]

\* C21 witness: an array_list of two host integers was converted, by the
\* fast path
C21_Witness ==
    /\ g # NoValue /\ g.op = "clrify"
    /\ g.in = [tag |-> "array_list", items |-> <<PyInt(1), PyInt(2)>>]
    /\ clrify(g.in.items[1]) = g.in.items[1]
    /\ g.out.tag = "Array" /\ g.out.items = <<PyInt(1), PyInt(2)>>

C23_ArrayListConstructor ==
    (g # NoValue /\ g.op = "array_list")
       => IF g.in.l = NoValue
          THEN g.out = [tag |-> "array_list", items |-> <<>>]
          ELSE /\ g.out.tag = "array_list"
               /\ Len(g.out.items) = Len(g.in.l.items)
               /\ \A i \in DOMAIN g.in.l.items :
                     g.out.items[i] = IF g.in.p
                                      THEN pyobjify(ToPython(g.in.l.items[i]))
                                      ELSE ToPython(g.in.l.items[i])

\* C27: after clrify of a plain list or of an array_list no element of the
\* result, whatever its position, is a PyScriptObject, a
\* PyScriptObjectCollection, a numpy array or a numpy scalar, also when the
\* first element needs no conversion and a later one does.
C27_EveryElementRemote ==
    (g # NoValue /\ g.op = "clrify" /\ g.in.tag \in {"list", "array_list"}
       /\ ~IsRaise(g.out))
       => \A i \in DOMAIN g.out.items :
             g.out.items[i].tag \notin {"PyScriptObject", "PyScriptObjectCollection",
                                        "ndarray", "npscalar"}

\* C28: the iterator keeps no snapshot.  Every step of an iterator compares
\* its index with the length the collection has at that step: when the index
\* has reached the length the step signals the end and requests nothing;
\* otherwise it requests the element the collection holds at that index at
\* that step, an index below the length, yields it and moves on by one.  So
\* the indexes yielded are 0, 1, ... and an element appended at an index not
\* yet visited is yielded.
C28_NoSnapshot ==
    /\ [](\A k \in DOMAIN iters : \A j \in DOMAIN iters[k].yielded :
             iters[k].yielded[j].index = j - 1)
    /\ [][\A k \in DOMAIN iters :
            (iters'[k].index # iters[k].index \/ iters'[k].stops # iters[k].stops)
               => IF iters[k].index >= Len(cItems)
                  THEN /\ iters'[k].stops = iters[k].stops + 1
                       /\ iters'[k].index = iters[k].index
                       /\ iters'[k].yielded = iters[k].yielded
                  ELSE /\ iters'[k].stops = iters[k].stops
                       /\ iters'[k].index = iters[k].index + 1
                       /\ iters[k].index < Len(cItems)
                       /\ iters'[k].yielded =
                             Append(iters[k].yielded,
                                    [index |-> iters[k].index,
                                     value |-> PyScriptObject(
                                                 cItems[iters[k].index + 1])])]_vars

\* C28 witness: an iterator went on after the collection had grown, yielded
\* the appended element and then signalled the end
C28_Witness ==
    \E k \in DOMAIN iters :
        /\ iters[k].mutated /\ iters[k].stops > 0
        /\ Len(iters[k].yielded) = Len(cItems)
        /\ \E j \in DOMAIN iters[k].yielded :
              iters[k].yielded[j].value.handle.id > MaxLen

\* C24: on a collection, keys() returns the list of the remote keys,
\* has_key(k) returns whether k is one of them, and values() returns the
\* elements through pyobjify in the order of the keys; none of them raises.
C24_KeysHasKeyValues ==
    (cSeen # NoValue /\ cSeen.op \in {"keys", "has_key", "values"})
       => /\ cSeen.out.kind = "value"
          /\ cSeen.op = "keys"
                => cSeen.out.value =
                      PyList([i \in DOMAIN cItems |-> KeyOfElement(cItems[i])])
          /\ cSeen.op = "has_key"
                => cSeen.out.value =
                      PyBool(IF \E i \in DOMAIN cItems :
                                  KeyOfElement(cItems[i]) = cSeen.key
                             THEN 1 ELSE 0)
          /\ cSeen.op = "values"
                => cSeen.out.value =
                      PyList([i \in DOMAIN cItems |-> PyScriptObject(cItems[i])])

\* C30: collection.<name> for a name the remote collection does not have
\* raises AttributeError, as on a PyScriptObject, so hasattr(collection,
\* name) is False and raises nothing.
C30_CollectionAttributeError ==
    (cSeen # NoValue /\ cSeen.op \in {"getattr", "hasattr"}
       /\ ~cSeen.answer.ok /\ StartsWith(cSeen.answer.msg, NoMemberPrefix))
       => /\ cSeen.op = "getattr"
                => /\ cSeen.out.kind = "AttributeError"
                   /\ cSeen.out = ObjectGetattr(cSeen.key.s, cSeen.answer)
          /\ cSeen.op = "hasattr"
                => cSeen.out = Outcome("bool", [tag |-> "bool", b |-> FALSE], <<>>)

\* C25: replace_help is idempotent.  The first call installs the wrapper,
\* which holds the original help; every later call changes nothing.  After
\* any number of calls the installed help is the original help if no call
\* was made, and otherwise one wrapper whose stored help is the original
\* help, never a wrapper around a wrapper; so help of an ordinary value
\* passes one wrapper at most.
C25_ReplaceHelpIdempotent ==
    /\ hp.help_replaced <=> \E i \in DOMAIN hp.log : hp.log[i].op = "replace_help"
    /\ hp.help = IF hp.help_replaced
                 THEN [tag |-> "ScriptObjectHelp",
                       builtin_help |-> [tag |-> "builtin_help"]]
                 ELSE [tag |-> "builtin_help"]
    /\ \A i \in DOMAIN hp.log : hp.log[i].op = "help" => hp.log[i].out.depth <= 1

\* C25 witness: replace_help was called twice, and help of an integer then
\* went through the one wrapper to the original help
C25_Witness ==
    /\ Len(hp.log) = 3
    /\ hp.log[1].op = "replace_help" /\ hp.log[2].op = "replace_help"
    /\ hp.log[3].op = "help" /\ hp.log[3].arg = PyInt(1)
    /\ hp.log[3].out = [shown |-> "builtin", depth |-> 1]
    /\ hp.help.builtin_help = [tag |-> "builtin_help"]

\* C26: a DicomSCP is constructed only in one of two forms: Title is given,
\* none of Node, Port, CalledAE, CallingAE is given and Title is one of the
\* allowed titles; or Title is not given and all four are given.  Every
\* other combination raises ValueError.  get_dicomscp_dict of an instance
\* holds exactly the fields that were given, never the allowed titles.
C26_DicomSCPForms ==
    scp # NoValue
       => LET f == scp.args
              four == {f.Node, f.Port, f.CalledAE, f.CallingAE}
              allowed == IF f.allowed # <<>> THEN f.allowed
                         ELSE IF ~scp.db.ok THEN <<>> ELSE scp.db.titles
              TitleForm == /\ f.Title # NoValue /\ four = {NoValue}
                           /\ \E i \in DOMAIN allowed : allowed[i] = f.Title
              NodeForm == f.Title = NoValue /\ NoValue \notin four
          IN  /\ ~IsRaise(scp.out) <=> (TitleForm \/ NodeForm)
              /\ IsRaise(scp.out) => scp.out.kind = "ValueError"
              /\ scp.dict # NoValue
                    => /\ \A i \in DOMAIN scp.dict.entries :
                             /\ scp.dict.entries[i].Key
                                   \in {"Title", "Node", "Port", "CalledAE", "CallingAE"}
                             /\ scp.dict.entries[i].Value = f[scp.dict.entries[i].Key]
                             /\ scp.dict.entries[i].Value # NoValue
                       /\ \A k \in {"Title", "Node", "Port", "CalledAE", "CallingAE"} :
                             f[k] # NoValue
                                => \E i \in DOMAIN scp.dict.entries :
                                      scp.dict.entries[i].Key = k

\* C29: _submit_threading always terminates: every export thread it starts
\* puts one result on the results queue, also when the export raises, the
\* polling loop deletes the thread's task when it takes the result, so tasks
\* becomes empty and the loop ends; and then every status field shows the
\* status of the export of its own destination.
C29_SubmitTerminates ==
    /\ <>(th.main = "done")
    /\ [](th.main = "done"
            => /\ th.tasks = {} /\ th.queue = <<>>
               /\ \A d \in 1..NumDest :
                     /\ th.thread[d] = "finished"
                     /\ th.status[d] =
                           DestinationExport(d, th.exported[d]).status)

====
